---- MODULE Spec2Model ----
(***************************************************************************)
(* Request orchestration core of @myopentrip/fetch-client:                 *)
(*   - AuthManager.refreshTokens / performTokenRefresh (single-flight),     *)
(*   - TokenRefreshQueue (utils/auth.ts),                                   *)
(*   - RetryManager (shouldRetry, calculateRetryDelay, executeWithRetry),   *)
(*   - FetchClient.executeRequest (retry loop + interceptor chains).        *)
(*                                                                         *)
(* Scheduling is the JavaScript event loop: one action is one synchronous  *)
(* run of code between two suspension points (await / promise reaction).   *)
(***************************************************************************)
EXTENDS Integers, Sequences, FiniteSets, TLC

\* ------------------------------------------------------------------ bounds

\* Number of concurrent callers of refreshTokens / startRefresh.
NumCallers == 3

Callers == 1..NumCallers

\* Largest maxRetries / per-call retries a configuration is drawn with.
MaxRetriesBound == 2

\* Number of updateConfig / updateRetryConfig calls in one behaviour.
MaxUpdates == 1

\* Math.random() is a multiple of 1/RandDenom in [0, 1); the draws taken are
\* the least, the middle and the greatest one.
RandDenom == 4

\* ------------------------------------------------------------ auth: values

\* AuthTokens (types.ts): accessToken, optional refreshToken ("" = undefined).
AccessTokens == {"a1", "a2"}
RefreshTokenValues == {"", "r1"}
AuthTokens == [accessToken : AccessTokens, refreshToken : RefreshTokenValues]
\* authState.tokens === null
NullTokens == [accessToken |-> "", refreshToken |-> ""]

\* Settlement values of promises: a value (tokens) or an error.
Ok(t) == [kind |-> "ok", tok |-> t, err |-> ""]
Err(e) == [kind |-> "err", tok |-> NullTokens, err |-> e]
Pending == [kind |-> "pending", tok |-> NullTokens, err |-> ""]

\* What the refresh endpoint (requestFn) or the refresh function can do:
\* respond with a body holding tokens, respond with a body holding none,
\* or fail.
EndpointErrors == {"NetworkError", "Http401"}
RefreshResponses ==
    {[kind |-> "tokens", tok |-> t, err |-> ""] : t \in AuthTokens}
    \cup {[kind |-> "empty", tok |-> NullTokens, err |-> ""]}
    \cup {[kind |-> "fail", tok |-> NullTokens, err |-> e] : e \in EndpointErrors}

VARIABLES
    component,      \* which class the behaviour exercises
    hasRefreshUrl,  \* authConfig.tokenRefreshUrl is configured
    tokens,         \* authState.tokens
    isAuthenticated,\* authState.isAuthenticated
    storage,        \* the storage collaborator: tokenKey / refreshTokenKey
    isRefreshing,   \* authState.isRefreshing / TokenRefreshQueue.isRefreshing
    refreshPromise, \* this.refreshPromise: 0 = null, else a promise id
    promises,       \* promise id -> its settlement
    performPc,      \* where performTokenRefresh / the refresh function stands
    performOutcome, \* what the running refresh will settle with
    waitingQueue,   \* TokenRefreshQueue.waitingQueue (callers' resolvers)
    callerState,    \* each caller: idle, owner, joined, queued, settled
    callerPromise,  \* the promise each caller waits on
    callerResult,   \* what each caller settled with
    callerGen,      \* history: completions seen when the caller invoked
    refreshCalls,   \* history: invocations of requestFn / refreshFunction
    completed       \* history: refreshes that returned the state to idle

authVars == <<component, hasRefreshUrl, tokens, isAuthenticated, storage,
              isRefreshing, refreshPromise, promises, performPc,
              performOutcome, waitingQueue, callerState, callerPromise,
              callerResult, callerGen, refreshCalls, completed>>

VARIABLES
    engine,          \* which retry loop the behaviour exercises
    retryConfig,     \* RetryManager.config / FetchClient.retryConfig
    updates,         \* history: updateConfig calls made so far
    cfgChangedInCall,\* history: the policy was updated during the call
    pc,              \* where the call stands
    reqRetries,      \* RequestConfig.retries of the call (NoOverride = absent)
    retries,         \* FetchClient.executeRequest: const retries
    attempt,         \* the loop variable
    calls,           \* history: invocations of the operation / of fetch
    sleeps,          \* history: the delays slept, in order (scaled by Scale)
    fetchError,      \* the error caught by the running catch block
    lastError,       \* let lastError
    errorChainRuns,  \* history: invocations of applyErrorInterceptors
    outcome,         \* what the caller received
    lastDecision     \* history: the last shouldRetry evaluation

retryVars == <<engine, retryConfig, updates, cfgChangedInCall, pc, reqRetries,
               retries, attempt, calls, sleeps, fetchError, lastError,
               errorChainRuns, outcome, lastDecision>>

VARIABLES
    signalGiven,     \* RequestConfig.signal is supplied by the caller
    callerAborted,   \* the caller's signal is aborted
    defaultTimeout,  \* config.timeout / RequestExecutor.timeout, in ticks
    reqTimeout,      \* RequestConfig.timeout of the call (NoOverride = absent)
    timeout,         \* const timeout (the effective timeout of the call)
    timerArmed,      \* timeoutId of the attempt in flight is pending
    abortCause,      \* why the signal handed to fetch is aborted, or "none"
    elapsed,         \* ticks since the attempt in flight called fetch
    cancelMark,      \* history: calls and sleeps when an attempt was aborted
    sleepCancel      \* history: calls when the caller aborted during a sleep

cancelVars == <<signalGiven, callerAborted, defaultTimeout, reqTimeout,
                timeout, timerArmed, abortCause, elapsed, cancelMark,
                sleepCancel>>

VARIABLES
    chainEngine,         \* which interceptor chain the behaviour exercises
    enabledInterceptors, \* enabledInterceptors / config.enableInterceptors
    interceptors,        \* this.interceptors: request, response, error lists
    registrations,       \* history: every add*Interceptor call and its handle
    pass,                \* the apply*Interceptors call in progress or returned
    passCount,           \* history: apply*Interceptors calls started
    callPc,              \* where the call of FetchClient stands
    transportCalls,      \* history: invocations of fetch by that call
    callOutcome          \* what the caller of FetchClient received

chainVars == <<chainEngine, enabledInterceptors, interceptors, registrations,
               pass, passCount, callPc, transportCalls, callOutcome>>

VARIABLES
    tkConfig,        \* authConfig: tokenRefreshUrl, refreshThreshold, tokenPrefix
    tkStoreKind,     \* whether the storage collaborator can be used
    now,             \* Date.now(), in milliseconds
    tkTokens,        \* authState.tokens
    tkAuthenticated, \* authState.isAuthenticated
    tkUser,          \* authState.user
    tkStore,         \* the storage collaborator: the three keys
    tkRefreshing,    \* authState.isRefreshing
    refresh,         \* the performTokenRefresh in flight and who awaits it
    lastOp           \* history: the operation that has just completed

tokenVars == <<tkConfig, tkStoreKind, now, tkTokens, tkAuthenticated, tkUser,
               tkStore, tkRefreshing, refresh, lastOp>>

VARIABLES
    baseURL,         \* config.baseURL, as a sequence of characters
    requestHook,     \* a request interceptor that injects a header is registered
    errorHook,       \* an error interceptor is registered
    sendPath,        \* the path argument of the call
    sendUrl,         \* what createURL returned for it
    route,           \* the transport the call went to: fetch or XMLHttpRequest
    sendPc,          \* where the call stands
    wireHeaders,     \* the headers handed to the transport
    sendOutcome      \* what the caller received

sendVars == <<baseURL, requestHook, errorHook, sendPath, sendUrl, route,
              sendPc, wireHeaders, sendOutcome>>

VARIABLES
    uaInstalled,     \* the unauthorized interceptor is in interceptors.response
    uaRequests,      \* history: calls of the client started so far
    uaPc,            \* where the call stands
    uaStatus,        \* status of the response of the call's transport attempt
    uaHandled,       \* history: did the call invoke handleUnauthorized
    uaOutcome        \* what the caller received

unauthVars == <<uaInstalled, uaRequests, uaPc, uaStatus, uaHandled, uaOutcome>>

VARIABLES
    listeners,       \* AuthEventEmitter.listeners.get(event)
    subscriptions,   \* history: the callback of every on(event, callback)
    unsubscribed,    \* history: how often each unsubscribe function was called
    emitting         \* the emit(event) in progress or returned

emitVars == <<listeners, subscriptions, unsubscribed, emitting>>

vars == <<authVars, retryVars, cancelVars, chainVars, tokenVars, sendVars,
          unauthVars, emitVars>>

NoMark == [seen |-> FALSE, calls |-> 0, sleeps |-> 0]

\* A value handed through a chain: the transformations applied to it, in
\* order, and whether it still is the object it was (an Error keeps its
\* message and prototype).
\* origin = 0 for the data of the call itself, f for an exception thrown by
\* interceptor f.
Value(applied, intact, origin) ==
    [applied |-> applied, intact |-> intact, origin |-> origin]
Original == Value(<<>>, TRUE, 0)
\* The settlement of an apply*Interceptors call; by = the interceptor whose
\* exception it is rejected with (0 = none).
NoSettlement == [kind |-> "none", value |-> Original, by |-> 0]
Returned(v) == [kind |-> "ok", value |-> v, by |-> 0]
Rejected(f) == [kind |-> "fail", value |-> Original, by |-> f]
NoPass == [kind |-> "none", idx |-> 0, input |-> Original, value |-> Original,
           trace |-> <<>>, startList |-> <<>>, startEnabled |-> FALSE,
           thrown |-> <<>>, added |-> {}, mutated |-> FALSE,
           outcome |-> NoSettlement]
NoInterceptors == [request |-> <<>>, response |-> <<>>, error |-> <<>>]

\* authState.tokens = null, and a key absent from storage.
NullTk == [accessToken |-> "", refreshToken |-> "", expiresIn |-> 0,
           expiresAt |-> 0, tokenType |-> ""]
EmptyStore == [token |-> "", refresh |-> "", expiresAt |-> 0]
NoHeader == [prefix |-> "", token |-> ""]
NoOp == [op |-> "none", arg |-> NullTk, threshold |-> -1,
         result |-> "", fired |-> 0, endpoint |-> 0, hadTokens |-> FALSE,
         hadRefreshToken |-> FALSE,
         wasExpired |-> FALSE, hadExpiry |-> FALSE, wasRefreshing |-> FALSE,
         header |-> NoHeader]
NoRefresh == [pc |-> "none", endpoint |-> 0, pre |-> NoOp]
NoAuthConfig == [refreshUrl |-> FALSE, refreshThreshold |-> 0,
                 tokenPrefix |-> ""]

\* No AuthManager in use (behaviours of the other classes).
TokenIdle ==
    /\ tkConfig = NoAuthConfig
    /\ tkStoreKind = "none"
    /\ now = 0
    /\ tkTokens = NullTk
    /\ tkAuthenticated = FALSE
    /\ tkUser = ""
    /\ tkStore = EmptyStore
    /\ tkRefreshing = FALSE
    /\ refresh = NoRefresh
    /\ lastOp = NoOp

\* No call made through request or the upload methods (behaviours of the
\* other classes).
NoSend == [kind |-> "none", processed |-> FALSE]
SendIdle ==
    /\ baseURL = <<>>
    /\ requestHook = FALSE
    /\ errorHook = FALSE
    /\ sendPath = <<>>
    /\ sendUrl = <<>>
    /\ route = "none"
    /\ sendPc = "idle"
    /\ wireHeaders = {}
    /\ sendOutcome = NoSend

NoEmit == [pc |-> "none", idx |-> 0, len |-> 0, startList |-> <<>>,
           trace |-> <<>>]
UnauthIdle ==
    /\ uaInstalled = FALSE
    /\ uaRequests = 0
    /\ uaPc = "idle"
    /\ uaStatus = 0
    /\ uaHandled = FALSE
    /\ uaOutcome = "none"
EmitIdle ==
    /\ listeners = <<>>
    /\ subscriptions = <<>>
    /\ unsubscribed = <<>>
    /\ emitting = NoEmit

\* No interceptor chain in use (behaviours of the other classes).
ChainIdle ==
    /\ chainEngine = "none"
    /\ enabledInterceptors = TRUE
    /\ interceptors = NoInterceptors
    /\ registrations = <<>>
    /\ pass = NoPass
    /\ passCount = 0
    /\ callPc = "idle"
    /\ transportCalls = 0
    /\ callOutcome = NoSettlement

\* No call with a signal or a timeout (behaviours of the other classes).
CancelIdle ==
    /\ signalGiven = FALSE
    /\ callerAborted = FALSE
    /\ defaultTimeout = 0
    /\ reqTimeout = 0
    /\ timeout = 0
    /\ timerArmed = FALSE
    /\ abortCause = "none"
    /\ elapsed = 0
    /\ cancelMark = NoMark
    /\ sleepCancel = NoMark

\* ----------------------------------------------------------- retry: values

\* FetchError.status === undefined (a failure that carries no status code).
NoStatus == -1
\* RequestConfig.retries === undefined.
NoOverride == -1

\* Statuses a failed attempt can carry: none, 0 (opaque response), 4xx, 5xx
\* and the first status past 5xx.
FailStatuses == {NoStatus, 0, 404, 499, 500, 599, 600}
SuccessStatus == 200
\* Response.ok
ResponseOk(status) == status >= 200 /\ status <= 299

\* `!error.status`: undefined and 0 are both falsy.
NoStatusCode(status) == status = NoStatus \/ status = 0

\* RetryManager.defaultRetryCondition
defaultRetryCondition_5xxAndUp(status, a) ==
    NoStatusCode(status) \/ status >= 500
defaultRetryCondition(status, a) ==
    NoStatusCode(status) \/ (status >= 500 /\ status < 600)

\* FetchClient constructor: retryConfig.retryCondition
clientDefaultRetryCondition(status, a) ==
    NoStatusCode(status) \/ (status >= 500 /\ status < 600)

\* Caller-supplied retry conditions: () => false (createConfig 'custom'),
\* () => true, error.status === 500 (tests/quick-test.ts), and one that
\* reads the attempt index.
RetryConditions ==
    {"default", "always", "never", "only500", "firstAttemptOnly", "undefined"}
userRetryCondition(name, status, a) ==
    CASE name = "always" -> TRUE
      [] name = "never" -> FALSE
      [] name = "only500" -> status = 500
      [] name = "firstAttemptOnly" -> a = 0
      [] OTHER -> FALSE

RetryFields == {"maxRetries", "baseDelay", "maxDelay", "backoffFactor",
                "jitter", "retryCondition"}

\* `x || d` on numbers
OrDefault(x, d) == IF x = 0 THEN d ELSE x

\* new RetryManager(config)
RetryManagerRawConfigs ==
    [maxRetries : 0..MaxRetriesBound, baseDelay : {100},
     maxDelay : {0, 150}, backoffFactor : {0}, jitter : BOOLEAN,
     retryCondition : {"undefined", "never"}]
RetryManagerConstructor(raw) ==
    [maxRetries |-> OrDefault(raw.maxRetries, 0),
     baseDelay |-> OrDefault(raw.baseDelay, 1000),
     maxDelay |-> OrDefault(raw.maxDelay, 30000),
     backoffFactor |-> OrDefault(raw.backoffFactor, 2),
     jitter |-> raw.jitter # FALSE,
     retryCondition |-> IF raw.retryCondition = "undefined" THEN "default"
                        ELSE raw.retryCondition]

\* new FetchClient(config)
FetchClientRawConfigs == [retries : 0..MaxRetriesBound, retryDelay : {0, 100}]
FetchClientConstructor(raw) ==
    [maxRetries |-> OrDefault(raw.retries, 0),
     baseDelay |-> OrDefault(raw.retryDelay, 1000),
     maxDelay |-> 30000,
     backoffFactor |-> 2,
     jitter |-> TRUE,
     retryCondition |-> "default"]

\* Partial<RetryConfig> arguments of updateConfig / updateRetryConfig.
PartialConfigs ==
    {[maxRetries |-> 0],
     [jitter |-> FALSE],
     [baseDelay |-> 0],
     [retryCondition |-> "undefined"],
     [retryCondition |-> "firstAttemptOnly"],
     [maxRetries |-> 2, baseDelay |-> 500, backoffFactor |-> 2,
      jitter |-> TRUE, retryCondition |-> "only500"],
     [maxRetries |-> MaxRetriesBound, baseDelay |-> 100, maxDelay |-> 150,
      backoffFactor |-> 3, jitter |-> FALSE, retryCondition |-> "always"]}

\* { ...this.config, ...config }
MergeConfig(cfg, partial) ==
    [f \in RetryFields |-> IF f \in DOMAIN partial THEN partial[f] ELSE cfg[f]]

RECURSIVE Pow(_, _)
Pow(b, e) == IF e = 0 THEN 1 ELSE b * Pow(b, e - 1)
Min(a, b) == IF a <= b THEN a ELSE b

\* Delays are held multiplied by Scale, so that the jitter term
\* (Math.random() - 0.5) * 2 * (delay * 0.1) is an integer.
Scale == 10 * RandDenom
RandomDraws == {0, RandDenom \div 2, RandDenom - 1}

\* RetryManager.calculateRetryDelay(attempt), Math.random() = rnd/RandDenom
calculateRetryDelay_clampBeforeJitter(cfg, a, rnd) ==
    LET delay == Min(cfg.baseDelay * Pow(cfg.backoffFactor, a), cfg.maxDelay)
    IN  IF cfg.jitter THEN Scale * delay + (2 * rnd - RandDenom) * delay
        ELSE Scale * delay
calculateRetryDelay_noBackoff(cfg, a, rnd) ==
    Min(Scale * cfg.baseDelay, Scale * cfg.maxDelay)
calculateRetryDelay(cfg, a, rnd) ==
    LET delay == cfg.baseDelay * Pow(cfg.backoffFactor, a)
        jittered == IF cfg.jitter
                    THEN Scale * delay + (2 * rnd - RandDenom) * delay
                    ELSE Scale * delay
    IN  Min(jittered, Scale * cfg.maxDelay)

\* FetchClient.calculateRetryDelay(attempt)
clientCalculateRetryDelay(cfg, a, rnd) ==
    LET delay == cfg.baseDelay * Pow(cfg.backoffFactor, a)
        jittered == IF cfg.jitter
                    THEN Scale * delay + (2 * rnd - RandDenom) * delay
                    ELSE Scale * delay
    IN  Min(jittered, Scale * cfg.maxDelay)

\* RetryManager.shouldRetry(error, attempt)
shouldRetry_ignoresLimit(cfg, status, a) ==
    /\ cfg.retryCondition # "undefined"
    /\ IF cfg.retryCondition = "default" THEN defaultRetryCondition(status, a)
       ELSE userRetryCondition(cfg.retryCondition, status, a)
shouldRetry(cfg, status, a) ==
    /\ a < cfg.maxRetries
    /\ cfg.retryCondition # "undefined"
    /\ IF cfg.retryCondition = "default" THEN defaultRetryCondition(status, a)
       ELSE userRetryCondition(cfg.retryCondition, status, a)

\* FetchClient.executeRequest: const shouldRetry = attempt < retries && ...
clientShouldRetry(cfg, limit, status, a) ==
    /\ a < limit
    /\ cfg.retryCondition # "undefined"
    /\ IF cfg.retryCondition = "default"
       THEN clientDefaultRetryCondition(status, a)
       ELSE userRetryCondition(cfg.retryCondition, status, a)

IdleConfig == FetchClientConstructor([retries |-> 0, retryDelay |-> 0])
NoOutcome == [kind |-> "none", status |-> NoStatus, msg |-> ""]
NoDecision == [made |-> FALSE, attempt |-> 0, limit |-> 0, status |-> NoStatus,
               cfg |-> IdleConfig, result |-> FALSE, delay |-> 0]

\* The retry loops at rest (behaviours of the auth classes).
RetryIdle ==
    /\ engine = "none"
    /\ retryConfig = IdleConfig
    /\ updates = 0
    /\ cfgChangedInCall = FALSE
    /\ pc = "idle"
    /\ reqRetries = NoOverride
    /\ retries = 0
    /\ attempt = 0
    /\ calls = 0
    /\ sleeps = <<>>
    /\ fetchError = NoStatus
    /\ lastError = NoStatus
    /\ errorChainRuns = 0
    /\ outcome = NoOutcome
    /\ lastDecision = NoDecision

\* ------------------------------------------------------- auth: AuthManager

\* constructor (part_009:19-27) followed by nothing else.
InitAuth ==
    /\ component \in {"AuthManager", "TokenRefreshQueue"}
    /\ hasRefreshUrl \in BOOLEAN
    /\ (component = "TokenRefreshQueue" => hasRefreshUrl)
    /\ tokens = NullTokens
    /\ isAuthenticated = FALSE
    /\ storage = NullTokens
    /\ isRefreshing = FALSE
    /\ refreshPromise = 0
    /\ promises = <<>>
    /\ performPc = "none"
    /\ performOutcome = Pending
    /\ waitingQueue = <<>>
    /\ callerState = [c \in Callers |-> "idle"]
    /\ callerPromise = [c \in Callers |-> 0]
    /\ callerResult = [c \in Callers |-> Pending]
    /\ callerGen = [c \in Callers |-> 0]
    /\ refreshCalls = 0
    /\ completed = 0
    /\ RetryIdle
    /\ CancelIdle
    /\ ChainIdle
    /\ TokenIdle
    /\ SendIdle
    /\ UnauthIdle
    /\ EmitIdle

\* The auth classes at rest (behaviours of the retry loops).
AuthIdle ==
    /\ component = "none"
    /\ hasRefreshUrl = FALSE
    /\ tokens = NullTokens
    /\ isAuthenticated = FALSE
    /\ storage = NullTokens
    /\ isRefreshing = FALSE
    /\ refreshPromise = 0
    /\ promises = <<>>
    /\ performPc = "none"
    /\ performOutcome = Pending
    /\ waitingQueue = <<>>
    /\ callerState = [c \in Callers |-> "idle"]
    /\ callerPromise = [c \in Callers |-> 0]
    /\ callerResult = [c \in Callers |-> Pending]
    /\ callerGen = [c \in Callers |-> 0]
    /\ refreshCalls = 0
    /\ completed = 0

\* saveTokensToStorage: the access token is always written, the refresh
\* token only when the new tokens carry one.
saveTokensToStorage(st, t) ==
    [accessToken |-> t.accessToken,
     refreshToken |-> IF t.refreshToken # "" THEN t.refreshToken
                      ELSE st.refreshToken]

\* setTokens(tokens)
AM_SetTokens(t) ==
    /\ component = "AuthManager"
    /\ tokens' = t
    /\ isAuthenticated' = TRUE
    /\ storage' = saveTokensToStorage(storage, t)
    /\ UNCHANGED <<component, hasRefreshUrl, isRefreshing, refreshPromise,
                   promises, performPc, performOutcome, waitingQueue,
                   callerState, callerPromise, callerResult, callerGen,
                   refreshCalls, completed>>
    /\ UNCHANGED <<retryVars, cancelVars, chainVars, tokenVars, sendVars,
                   unauthVars, emitVars>>

\* clearTokens()
AM_ClearTokens ==
    /\ component = "AuthManager"
    /\ tokens # NullTokens \/ storage # NullTokens
    /\ tokens' = NullTokens
    /\ isAuthenticated' = FALSE
    /\ storage' = NullTokens
    /\ UNCHANGED <<component, hasRefreshUrl, isRefreshing, refreshPromise,
                   promises, performPc, performOutcome, waitingQueue,
                   callerState, callerPromise, callerResult, callerGen,
                   refreshCalls, completed>>
    /\ UNCHANGED <<retryVars, cancelVars, chainVars, tokenVars, sendVars,
                   unauthVars, emitVars>>

\* refreshTokens: `if (this.refreshPromise) return this.refreshPromise`
RefreshInFlight_never(p) == FALSE
RefreshInFlight(p) == p # 0

\* performTokenRefresh: `if (!currentTokens?.refreshToken) throw`
HasRefreshToken(t) == t # NullTokens /\ t.refreshToken # ""

\* refreshTokens(requestFn), up to its first suspension point.  The call of
\* performTokenRefresh runs synchronously up to `await requestFn(...)`.
AM_RefreshTokens(c) ==
    /\ component = "AuthManager"
    /\ callerState[c] = "idle"
    /\ callerGen' = [callerGen EXCEPT ![c] = completed]
    /\ IF ~hasRefreshUrl
       THEN \* throw new Error('Token refresh URL not configured')
            /\ callerState' = [callerState EXCEPT ![c] = "settled"]
            /\ callerResult' = [callerResult EXCEPT ![c] = Err("NoRefreshUrl")]
            /\ UNCHANGED <<callerPromise, refreshPromise, promises, performPc,
                           isRefreshing, refreshCalls>>
       ELSE IF RefreshInFlight(refreshPromise)
       THEN \* return this.refreshPromise
            /\ callerState' = [callerState EXCEPT ![c] = "joined"]
            /\ callerPromise' = [callerPromise EXCEPT ![c] = refreshPromise]
            /\ UNCHANGED <<callerResult, refreshPromise, promises, performPc,
                           isRefreshing, refreshCalls>>
       ELSE \* this.refreshPromise = this.performTokenRefresh(requestFn)
            /\ refreshPromise' = Len(promises) + 1
            /\ callerState' = [callerState EXCEPT ![c] = "owner"]
            /\ callerPromise' = [callerPromise EXCEPT ![c] = Len(promises) + 1]
            /\ UNCHANGED callerResult
            /\ IF HasRefreshToken(tokens)
               THEN /\ isRefreshing' = TRUE
                    /\ refreshCalls' = refreshCalls + 1
                    /\ performPc' = "requesting"
                    /\ promises' = Append(promises, Pending)
               ELSE \* throw new Error('No refresh token available')
                    /\ promises' = Append(promises, Err("NoRefreshToken"))
                    /\ UNCHANGED <<isRefreshing, refreshCalls, performPc>>
    /\ UNCHANGED <<component, hasRefreshUrl, tokens, isAuthenticated, storage,
                   performOutcome, waitingQueue, completed>>
    /\ UNCHANGED <<retryVars, cancelVars, chainVars, tokenVars, sendVars,
                   unauthVars, emitVars>>

\* extractTokensFromResponse (default extraction): tokens or null.
extractTokensFromResponse(resp) ==
    IF resp.kind = "tokens" THEN resp.tok ELSE NullTokens

\* performTokenRefresh resumes after `await requestFn(...)`: on success
\* setTokens(newTokens) up to its await; on failure onTokenExpired and
\* clearTokens() up to its await.
AM_RequestFnSettles(resp) ==
    /\ component = "AuthManager"
    /\ performPc = "requesting"
    /\ IF resp.kind = "tokens" /\ extractTokensFromResponse(resp) # NullTokens
       THEN /\ tokens' = extractTokensFromResponse(resp)
            /\ isAuthenticated' = TRUE
            /\ storage' = saveTokensToStorage(storage, resp.tok)
            /\ performOutcome' = Ok(extractTokensFromResponse(resp))
       ELSE /\ tokens' = NullTokens
            /\ isAuthenticated' = FALSE
            /\ storage' = NullTokens
            /\ performOutcome' =
                  IF resp.kind = "fail" THEN Err(resp.err)
                  ELSE Err("ExtractFailed")
    /\ performPc' = "finishing"
    /\ UNCHANGED <<component, hasRefreshUrl, isRefreshing, refreshPromise,
                   promises, waitingQueue, callerState, callerPromise,
                   callerResult, callerGen, refreshCalls, completed>>
    /\ UNCHANGED <<retryVars, cancelVars, chainVars, tokenVars, sendVars,
                   unauthVars, emitVars>>

\* performTokenRefresh: `finally { this.authState.isRefreshing = false }`
PerformFinally_keeps(flag) == flag
PerformFinally(flag) == FALSE

\* performTokenRefresh returns / rethrows; the finally block runs and the
\* promise held in this.refreshPromise settles.
AM_PerformFinish ==
    /\ component = "AuthManager"
    /\ performPc = "finishing"
    /\ isRefreshing' = PerformFinally(isRefreshing)
    /\ promises' = [promises EXCEPT ![refreshPromise] = performOutcome]
    /\ performPc' = "none"
    /\ performOutcome' = Pending
    /\ UNCHANGED <<component, hasRefreshUrl, tokens, isAuthenticated, storage,
                   refreshPromise, waitingQueue, callerState, callerPromise,
                   callerResult, callerGen, refreshCalls, completed>>
    /\ UNCHANGED <<retryVars, cancelVars, chainVars, tokenVars, sendVars,
                   unauthVars, emitVars>>

\* refreshTokens resumes after `await this.refreshPromise` in the caller
\* that started the refresh: `this.refreshPromise = null` on both paths.
OwnerReset(p) == 0

AM_OwnerContinue(c) ==
    /\ component = "AuthManager"
    /\ callerState[c] = "owner"
    /\ promises[callerPromise[c]].kind # "pending"
    /\ refreshPromise' = OwnerReset(refreshPromise)
    /\ callerState' = [callerState EXCEPT ![c] = "settled"]
    /\ callerResult' = [callerResult EXCEPT ![c] = promises[callerPromise[c]]]
    /\ completed' = completed + 1
    /\ UNCHANGED <<component, hasRefreshUrl, tokens, isAuthenticated, storage,
                   isRefreshing, promises, performPc, performOutcome,
                   waitingQueue, callerPromise, callerGen, refreshCalls>>
    /\ UNCHANGED <<retryVars, cancelVars, chainVars, tokenVars, sendVars,
                   unauthVars, emitVars>>

\* A caller that was handed this.refreshPromise settles with it.  Its
\* reaction is queued behind the owner's (registered first, and adopting a
\* returned promise takes extra microtask turns), so the owner has resumed.
AM_JoinerSettle(c) ==
    /\ component = "AuthManager"
    /\ callerState[c] = "joined"
    /\ promises[callerPromise[c]].kind # "pending"
    /\ \A o \in Callers :
          ~(callerState[o] = "owner" /\ callerPromise[o] = callerPromise[c])
    /\ callerState' = [callerState EXCEPT ![c] = "settled"]
    /\ callerResult' = [callerResult EXCEPT ![c] = promises[callerPromise[c]]]
    /\ UNCHANGED <<component, hasRefreshUrl, tokens, isAuthenticated, storage,
                   isRefreshing, refreshPromise, promises, performPc,
                   performOutcome, waitingQueue, callerPromise, callerGen,
                   refreshCalls, completed>>
    /\ UNCHANGED <<retryVars, cancelVars, chainVars, tokenVars, sendVars,
                   unauthVars, emitVars>>

\* ------------------------------------------------- auth: TokenRefreshQueue

\* startRefresh / addToQueue: `if (this.refreshPromise)`
QueueBusy(p) == p # 0

\* addToQueue(): with a refresh in progress the caller's resolvers are
\* pushed on waitingQueue, else the call rejects.
Q_AddToQueue(c) ==
    /\ component = "TokenRefreshQueue"
    /\ callerState[c] = "idle"
    /\ callerGen' = [callerGen EXCEPT ![c] = completed]
    /\ IF QueueBusy(refreshPromise)
       THEN /\ waitingQueue' = Append(waitingQueue, c)
            /\ callerState' = [callerState EXCEPT ![c] = "queued"]
            /\ callerPromise' = [callerPromise EXCEPT ![c] = refreshPromise]
            /\ UNCHANGED callerResult
       ELSE /\ callerState' = [callerState EXCEPT ![c] = "settled"]
            /\ callerResult' =
                  [callerResult EXCEPT ![c] = Err("NoRefreshInProgress")]
            /\ UNCHANGED <<waitingQueue, callerPromise>>
    /\ UNCHANGED <<component, hasRefreshUrl, tokens, isAuthenticated, storage,
                   isRefreshing, refreshPromise, promises, performPc,
                   performOutcome, refreshCalls, completed>>
    /\ UNCHANGED <<retryVars, cancelVars, chainVars, tokenVars, sendVars,
                   unauthVars, emitVars>>

\* startRefresh(refreshFunction)
Q_StartRefresh(c) ==
    /\ component = "TokenRefreshQueue"
    /\ callerState[c] = "idle"
    /\ callerGen' = [callerGen EXCEPT ![c] = completed]
    /\ IF QueueBusy(refreshPromise)
       THEN \* return this.addToQueue()
            /\ waitingQueue' = Append(waitingQueue, c)
            /\ callerState' = [callerState EXCEPT ![c] = "queued"]
            /\ callerPromise' = [callerPromise EXCEPT ![c] = refreshPromise]
            /\ UNCHANGED <<isRefreshing, refreshPromise, promises, performPc,
                           refreshCalls>>
       ELSE \* this.refreshPromise = refreshFunction().then(..).catch(..)
            /\ isRefreshing' = TRUE
            /\ refreshCalls' = refreshCalls + 1
            /\ performPc' = "requesting"
            /\ promises' = Append(promises, Pending)
            /\ refreshPromise' = Len(promises) + 1
            /\ callerState' = [callerState EXCEPT ![c] = "owner"]
            /\ callerPromise' = [callerPromise EXCEPT ![c] = Len(promises) + 1]
            /\ UNCHANGED waitingQueue
    /\ UNCHANGED <<component, hasRefreshUrl, tokens, isAuthenticated, storage,
                   performOutcome, callerResult, completed>>
    /\ UNCHANGED <<retryVars, cancelVars, chainVars, tokenVars, sendVars,
                   unauthVars, emitVars>>

\* The promise returned by refreshFunction() settles; the .then / .catch
\* handler is queued as a microtask.
Q_RefreshFunctionSettles(resp) ==
    /\ component = "TokenRefreshQueue"
    /\ performPc = "requesting"
    /\ resp.kind # "empty"
    /\ performOutcome' = IF resp.kind = "tokens" THEN Ok(resp.tok)
                         ELSE Err(resp.err)
    /\ performPc' = "finishing"
    /\ UNCHANGED <<component, hasRefreshUrl, tokens, isAuthenticated, storage,
                   isRefreshing, refreshPromise, promises, waitingQueue,
                   callerState, callerPromise, callerResult, callerGen,
                   refreshCalls, completed>>
    /\ UNCHANGED <<retryVars, cancelVars, chainVars, tokenVars, sendVars,
                   unauthVars, emitVars>>

\* The handler's `this.waitingQueue.forEach(({ resolve }) => resolve(tokens))`
\* (or reject(error)): the callers whose promises it settles.
Released_butLast(q) == {q[i] : i \in 1..(Len(q) - 1)}
Released(q) == {q[i] : i \in 1..Len(q)}

\* The .then handler (or the .catch handler): settle every waiting caller,
\* clearQueue(), and settle the promise startRefresh returned.
Q_Handler ==
    /\ component = "TokenRefreshQueue"
    /\ performPc = "finishing"
    /\ callerState' = [c \in Callers |->
                         IF c \in Released(waitingQueue) THEN "settled"
                         ELSE callerState[c]]
    /\ callerResult' = [c \in Callers |->
                          IF c \in Released(waitingQueue) THEN performOutcome
                          ELSE callerResult[c]]
    /\ isRefreshing' = FALSE
    /\ promises' = [promises EXCEPT ![refreshPromise] = performOutcome]
    /\ refreshPromise' = 0
    /\ waitingQueue' = <<>>
    /\ performPc' = "none"
    /\ performOutcome' = Pending
    /\ completed' = completed + 1
    /\ UNCHANGED <<component, hasRefreshUrl, tokens, isAuthenticated, storage,
                   callerPromise, callerGen, refreshCalls>>
    /\ UNCHANGED <<retryVars, cancelVars, chainVars, tokenVars, sendVars,
                   unauthVars, emitVars>>

\* The caller that started the refresh observes the returned promise.
Q_OwnerSettle(c) ==
    /\ component = "TokenRefreshQueue"
    /\ callerState[c] = "owner"
    /\ promises[callerPromise[c]].kind # "pending"
    /\ callerState' = [callerState EXCEPT ![c] = "settled"]
    /\ callerResult' = [callerResult EXCEPT ![c] = promises[callerPromise[c]]]
    /\ UNCHANGED <<component, hasRefreshUrl, tokens, isAuthenticated, storage,
                   isRefreshing, refreshPromise, promises, performPc,
                   performOutcome, waitingQueue, callerPromise, callerGen,
                   refreshCalls, completed>>
    /\ UNCHANGED <<retryVars, cancelVars, chainVars, tokenVars, sendVars,
                   unauthVars, emitVars>>


NextAuth ==
    \/ \E t \in AuthTokens : AM_SetTokens(t)
    \/ AM_ClearTokens
    \/ \E c \in Callers : AM_RefreshTokens(c)
    \/ \E resp \in RefreshResponses : AM_RequestFnSettles(resp)
    \/ AM_PerformFinish
    \/ \E c \in Callers : AM_OwnerContinue(c)
    \/ \E c \in Callers : AM_JoinerSettle(c)
    \/ \E c \in Callers : Q_AddToQueue(c)
    \/ \E c \in Callers : Q_StartRefresh(c)
    \/ \E resp \in RefreshResponses : Q_RefreshFunctionSettles(resp)
    \/ Q_Handler
    \/ \E c \in Callers : Q_OwnerSettle(c)

SpecAuth == InitAuth /\ [][NextAuth]_vars

\* ------------------------------------------------------ auth: claims C1-C3

\* Callers that were handed a promise of a refresh (not rejected up front).
Attached(c) == callerPromise[c] # 0
Batches == completed + (IF refreshPromise # 0 THEN 1 ELSE 0)

\* C1: AuthManager.refreshTokens is single-flight.  With the refresh URL
\* configured, callers that invoke refreshTokens with no completion between
\* them all hold the same promise; the refresh endpoint is called exactly
\* once per such batch when a refresh token was present at its start (and
\* never otherwise); and every caller of the batch settles with the same
\* outcome, the same tokens or the same error.
C1_SingleFlightRefresh ==
    component = "AuthManager" =>
      /\ Len(promises) = Batches
      /\ refreshCalls =
            Cardinality({i \in 1..Len(promises) :
                            promises[i] # Err("NoRefreshToken")})
      /\ \A c1, c2 \in Callers :
            (callerState[c1] # "idle" /\ callerState[c2] # "idle"
             /\ callerGen[c1] = callerGen[c2])
            => /\ callerPromise[c1] = callerPromise[c2]
               /\ (callerState[c1] = "settled" /\ callerState[c2] = "settled"
                   => callerResult[c1] = callerResult[c2])

\* Two concurrent callers, one endpoint call, both settled with the same
\* new tokens.
C1_Witness ==
    /\ component = "AuthManager"
    /\ refreshCalls = 1
    /\ \E c1, c2 \in Callers :
          /\ c1 # c2
          /\ callerState[c1] = "settled" /\ callerState[c2] = "settled"
          /\ callerGen[c1] = 0 /\ callerGen[c2] = 0
          /\ callerResult[c1].kind = "ok"
          /\ callerResult[c2] = callerResult[c1]

\* C2: TokenRefreshQueue.startRefresh during a refresh in progress does not
\* invoke the refresh function (one invocation per refresh); the caller is
\* queued on the in-flight refresh, and once that refresh has settled no
\* caller of it is still queued and each one holds the refresh's outcome.
C2_QueueSharesInFlightRefresh ==
    component = "TokenRefreshQueue" =>
      /\ refreshCalls = Batches
      /\ Len(promises) = Batches
      /\ \A c \in Callers :
            /\ callerState[c] = "queued"
               => /\ callerPromise[c] = refreshPromise
                  /\ promises[callerPromise[c]].kind = "pending"
                  /\ \E i \in 1..Len(waitingQueue) : waitingQueue[i] = c
            /\ (callerState[c] = "settled" /\ Attached(c))
               => /\ promises[callerPromise[c]].kind # "pending"
                  /\ callerResult[c] = promises[callerPromise[c]]

\* A queued caller and the starter of the refresh, both settled with the
\* tokens of the single refresh call.
C2_Witness ==
    /\ component = "TokenRefreshQueue"
    /\ refreshCalls = 1
    /\ \E c1, c2 \in Callers :
          /\ c1 # c2
          /\ callerState[c1] = "settled" /\ callerState[c2] = "settled"
          /\ Attached(c1) /\ callerPromise[c2] = callerPromise[c1]
          /\ callerResult[c1].kind = "ok"

\* C3: the refresh state machine returns to Idle.  The refreshing flag is
\* true exactly while a refresh call is in flight; once a refresh has
\* completed (a caller of it has settled) the promise of that refresh is no
\* longer retained and the flag is false unless a new refresh was started;
\* with no refresh pending there is no retained promise, so that every
\* refresh batch has a promise (and an underlying call) of its own.
C3_RefreshReturnsToIdle ==
    /\ isRefreshing <=> performPc \in {"requesting", "finishing"}
    /\ isRefreshing => refreshPromise # 0
    /\ refreshPromise # 0 =>
          /\ refreshPromise = Len(promises)
          /\ \E c \in Callers :
                callerState[c] = "owner" /\ callerPromise[c] = refreshPromise
    /\ Len(promises) = Batches
    /\ \A c \in Callers :
          (callerState[c] = "settled" /\ Attached(c))
          => /\ refreshPromise # callerPromise[c]
             /\ promises[callerPromise[c]].kind # "pending"

\* A refresh failed, the state went back to Idle, and the next request
\* started a second underlying call.
C3_Witness ==
    /\ completed = 1
    /\ refreshCalls = 2
    /\ isRefreshing
    /\ \E c \in Callers :
          callerState[c] = "settled" /\ callerResult[c].kind = "err"
          /\ Attached(c)

\* --------------------------------------------------- retry: RetryManager

\* let lastError: FetchError | undefined
Unset == -2

Decision(a, limit, status, cfg, result, delay) ==
    [made |-> TRUE, attempt |-> a, limit |-> limit, status |-> status,
     cfg |-> cfg, result |-> result, delay |-> delay]
Success == [kind |-> "success", status |-> SuccessStatus, msg |-> ""]
Failure(status, msg) == [kind |-> "failure", status |-> status, msg |-> msg]

\* constructor of the class under exercise; no call started.
InitRetry ==
    /\ engine \in {"RetryManager", "FetchClient"}
    /\ \/ /\ engine = "RetryManager"
          /\ retryConfig \in
               {RetryManagerConstructor(raw) : raw \in RetryManagerRawConfigs}
       \/ /\ engine = "FetchClient"
          /\ retryConfig \in
               {FetchClientConstructor(raw) : raw \in FetchClientRawConfigs}
    /\ updates = 0
    /\ cfgChangedInCall = FALSE
    /\ pc = "idle"
    /\ reqRetries = NoOverride
    /\ retries = 0
    /\ attempt = 0
    /\ calls = 0
    /\ sleeps = <<>>
    /\ fetchError = Unset
    /\ lastError = Unset
    /\ errorChainRuns = 0
    /\ outcome = NoOutcome
    /\ lastDecision = NoDecision
    /\ AuthIdle
    /\ CancelIdle
    /\ ChainIdle
    /\ TokenIdle
    /\ SendIdle
    /\ UnauthIdle
    /\ EmitIdle

\* RetryManager.updateConfig(config)
Mgr_UpdateConfig(partial) ==
    /\ engine = "RetryManager"
    /\ updates < MaxUpdates
    /\ pc # "done"
    /\ retryConfig' = MergeConfig(retryConfig, partial)
    /\ updates' = updates + 1
    /\ cfgChangedInCall' = (cfgChangedInCall \/ pc # "idle")
    /\ UNCHANGED <<engine, pc, reqRetries, retries, attempt, calls, sleeps,
                   fetchError, lastError, errorChainRuns, outcome,
                   lastDecision>>
    /\ UNCHANGED <<authVars, cancelVars, chainVars, tokenVars, sendVars,
                   unauthVars, emitVars>>

\* executeWithRetry: `throw lastError || new Error('Request failed ...')`
ThrownError_generic(e) == NoStatus
ThrownError(e) == IF e = Unset THEN NoStatus ELSE e

\* for (let attempt = 0; attempt <= maxRetries; attempt++)
LoopContinues_exclusive(a, limit) == a < limit
LoopContinues(a, limit) == a <= limit

\* executeWithRetry(fn): loop entry and the first call of fn.
Mgr_ExecuteWithRetry ==
    /\ engine = "RetryManager"
    /\ pc = "idle"
    /\ attempt' = 0
    /\ IF LoopContinues(0, retryConfig.maxRetries)
       THEN /\ calls' = calls + 1
            /\ pc' = "running"
            /\ UNCHANGED outcome
       ELSE /\ pc' = "done"
            /\ outcome' = Failure(ThrownError(lastError), "")
            /\ UNCHANGED calls
    /\ UNCHANGED <<engine, retryConfig, updates, cfgChangedInCall, reqRetries,
                   retries, sleeps, fetchError, lastError, errorChainRuns,
                   lastDecision>>
    /\ UNCHANGED <<authVars, cancelVars, chainVars, tokenVars, sendVars,
                   unauthVars, emitVars>>

\* `const result = await fn(); return result`
Mgr_OperationSucceeds ==
    /\ engine = "RetryManager"
    /\ pc = "running"
    /\ pc' = "done"
    /\ outcome' = Success
    /\ UNCHANGED <<engine, retryConfig, updates, cfgChangedInCall, reqRetries,
                   retries, attempt, calls, sleeps, fetchError, lastError,
                   errorChainRuns, lastDecision>>
    /\ UNCHANGED <<authVars, cancelVars, chainVars, tokenVars, sendVars,
                   unauthVars, emitVars>>

\* fn() rejects: the catch block up to `await this.sleep(delay)` or `break`
\* followed by the final throw.
Mgr_OperationFails(status, rnd) ==
    /\ engine = "RetryManager"
    /\ pc = "running"
    /\ lastError' = status
    /\ LET retry == shouldRetry(retryConfig, status, attempt)
           delay == calculateRetryDelay(retryConfig, attempt, rnd)
       IN  /\ lastDecision' =
                Decision(attempt, retryConfig.maxRetries, status, retryConfig,
                         retry, IF retry THEN delay ELSE 0)
           /\ IF retry
              THEN /\ sleeps' = Append(sleeps, delay)
                   /\ pc' = "sleeping"
                   /\ UNCHANGED outcome
              ELSE /\ pc' = "done"
                   /\ outcome' = Failure(ThrownError(status), "")
                   /\ UNCHANGED sleeps
    /\ UNCHANGED <<engine, retryConfig, updates, cfgChangedInCall, reqRetries,
                   retries, attempt, calls, fetchError, errorChainRuns>>
    /\ UNCHANGED <<authVars, cancelVars, chainVars, tokenVars, sendVars,
                   unauthVars, emitVars>>

\* The sleep ends: attempt++, the loop test, and the next call of fn.
Mgr_Wake ==
    /\ engine = "RetryManager"
    /\ pc = "sleeping"
    /\ attempt' = attempt + 1
    /\ IF LoopContinues(attempt + 1, retryConfig.maxRetries)
       THEN /\ calls' = calls + 1
            /\ pc' = "running"
            /\ UNCHANGED outcome
       ELSE /\ pc' = "done"
            /\ outcome' = Failure(ThrownError(lastError), "")
            /\ UNCHANGED calls
    /\ UNCHANGED <<engine, retryConfig, updates, cfgChangedInCall, reqRetries,
                   retries, sleeps, fetchError, lastError, errorChainRuns,
                   lastDecision>>
    /\ UNCHANGED <<authVars, cancelVars, chainVars, tokenVars, sendVars,
                   unauthVars, emitVars>>

\* ---------------------------------------- retry: FetchClient.executeRequest

\* FetchClient.updateRetryConfig(config)
Client_UpdateRetryConfig(partial) ==
    /\ engine = "FetchClient"
    /\ updates < MaxUpdates
    /\ pc # "done"
    /\ retryConfig' = MergeConfig(retryConfig, partial)
    /\ updates' = updates + 1
    /\ cfgChangedInCall' = (cfgChangedInCall \/ pc # "idle")
    /\ UNCHANGED <<engine, pc, reqRetries, retries, attempt, calls, sleeps,
                   fetchError, lastError, errorChainRuns, outcome,
                   lastDecision>>
    /\ UNCHANGED <<authVars, cancelVars, chainVars, tokenVars, sendVars,
                   unauthVars, emitVars>>

\* for (let attempt = 0; attempt <= retries; attempt++)
clientLoopContinues(a, limit) == a <= limit

\* executeRequest(url, config) up to `await this.applyRequestInterceptors`.
Client_ExecuteRequest(override) ==
    /\ engine = "FetchClient"
    /\ pc = "idle"
    /\ pc' = "reqInterceptors"
    /\ reqRetries' = override
    /\ UNCHANGED <<engine, retryConfig, updates, cfgChangedInCall, retries,
                   attempt, calls, sleeps, fetchError, lastError,
                   errorChainRuns, outcome, lastDecision>>
    /\ UNCHANGED <<authVars, cancelVars, chainVars, tokenVars, sendVars,
                   unauthVars, emitVars>>

\* `if (lastError) { await this.applyErrorInterceptors(lastError) ... }`
ErrorChainApplies_never(e) == FALSE
ErrorChainApplies(e) == e # Unset

\* The request interceptors return (ok) or one of them throws.  On return:
\* `retries = this.retryConfig.maxRetries` unless the call overrides it, the
\* loop is entered and fetch is called.
Client_RequestInterceptorsDone(ok) ==
    /\ engine = "FetchClient"
    /\ pc = "reqInterceptors"
    /\ IF ok
       THEN LET r == IF reqRetries = NoOverride THEN retryConfig.maxRetries
                     ELSE reqRetries
            IN  /\ retries' = r
                /\ attempt' = 0
                /\ IF clientLoopContinues(0, r)
                   THEN /\ calls' = calls + 1
                        /\ pc' = "running"
                        /\ UNCHANGED outcome
                   ELSE /\ pc' = "done"
                        /\ outcome' = Failure(NoStatus, "unknown")
                        /\ UNCHANGED calls
       ELSE /\ pc' = "done"
            /\ outcome' = Failure(NoStatus, "requestInterceptor")
            /\ UNCHANGED <<retries, attempt, calls>>
    /\ UNCHANGED <<engine, retryConfig, updates, cfgChangedInCall, reqRetries,
                   sleeps, fetchError, lastError, errorChainRuns,
                   lastDecision>>
    /\ UNCHANGED <<authVars, cancelVars, chainVars, tokenVars, sendVars,
                   unauthVars, emitVars>>

ClientCatch_swallows(status, rnd) ==
    /\ fetchError' = status
    /\ UNCHANGED <<lastDecision, sleeps, pc, lastError, errorChainRuns,
                   outcome>>
\* The catch block of the loop, for the error `status` of this attempt.
ClientCatch(status, rnd) ==
    LET retry == clientShouldRetry(retryConfig, retries, status, attempt)
        delay == clientCalculateRetryDelay(retryConfig, attempt, rnd)
    IN  /\ fetchError' = status
        /\ lastDecision' =
             Decision(attempt, retries, status, retryConfig, retry,
                      IF retry THEN delay ELSE 0)
        /\ IF retry
           THEN /\ sleeps' = Append(sleeps, delay)
                /\ pc' = "sleeping"
                /\ UNCHANGED <<lastError, errorChainRuns, outcome>>
           ELSE /\ lastError' = status
                /\ UNCHANGED sleeps
                /\ IF ErrorChainApplies(status)
                   THEN /\ pc' = "errInterceptors"
                        /\ errorChainRuns' = errorChainRuns + 1
                        /\ UNCHANGED outcome
                   ELSE /\ pc' = "done"
                        /\ outcome' = Failure(NoStatus, "unknown")
                        /\ UNCHANGED errorChainRuns

\* fetch settles: a response with a status, or a rejection (NoStatus).
Client_FetchSettles(status, rnd) ==
    /\ engine = "FetchClient"
    /\ pc = "running"
    /\ IF ResponseOk(status)
       THEN /\ pc' = "respInterceptors"
            /\ UNCHANGED <<sleeps, fetchError, lastError, errorChainRuns,
                           outcome, lastDecision>>
       ELSE ClientCatch(status, rnd)
    /\ UNCHANGED <<engine, retryConfig, updates, cfgChangedInCall, reqRetries,
                   retries, attempt, calls>>
    /\ UNCHANGED <<authVars, cancelVars, chainVars, tokenVars, sendVars,
                   unauthVars, emitVars>>

\* `return await this.applyResponseInterceptors(fetchResponse)` inside the
\* try block: a throwing response interceptor lands in the catch block.
Client_ResponseInterceptorsDone(ok, rnd) ==
    /\ engine = "FetchClient"
    /\ pc = "respInterceptors"
    /\ IF ok
       THEN /\ pc' = "done"
            /\ outcome' = Success
            /\ UNCHANGED <<sleeps, fetchError, lastError, errorChainRuns,
                           lastDecision>>
       ELSE ClientCatch(NoStatus, rnd)
    /\ UNCHANGED <<engine, retryConfig, updates, cfgChangedInCall, reqRetries,
                   retries, attempt, calls>>
    /\ UNCHANGED <<authVars, cancelVars, chainVars, tokenVars, sendVars,
                   unauthVars, emitVars>>

\* The sleep ends: `lastError = fetchError`, attempt++, the loop test and
\* the next call of fetch.
Client_Wake ==
    /\ engine = "FetchClient"
    /\ pc = "sleeping"
    /\ lastError' = fetchError
    /\ attempt' = attempt + 1
    /\ IF clientLoopContinues(attempt + 1, retries)
       THEN /\ calls' = calls + 1
            /\ pc' = "running"
            /\ UNCHANGED <<errorChainRuns, outcome>>
       ELSE IF ErrorChainApplies(fetchError)
       THEN /\ pc' = "errInterceptors"
            /\ errorChainRuns' = errorChainRuns + 1
            /\ UNCHANGED <<calls, outcome>>
       ELSE /\ pc' = "done"
            /\ outcome' = Failure(NoStatus, "unknown")
            /\ UNCHANGED <<calls, errorChainRuns>>
    /\ UNCHANGED <<engine, retryConfig, updates, cfgChangedInCall, reqRetries,
                   retries, sleeps, fetchError, lastDecision>>
    /\ UNCHANGED <<authVars, cancelVars, chainVars, tokenVars, sendVars,
                   unauthVars, emitVars>>

\* applyErrorInterceptors(lastError) returns and its result is thrown: the
\* error as it was, or with the message an interceptor gave it.
ErrorMessages == {"original", "transformed"}
Client_ErrorInterceptorsDone(msg) ==
    /\ engine = "FetchClient"
    /\ pc = "errInterceptors"
    /\ pc' = "done"
    /\ outcome' = Failure(lastError, msg)
    /\ UNCHANGED <<engine, retryConfig, updates, cfgChangedInCall, reqRetries,
                   retries, attempt, calls, sleeps, fetchError, lastError,
                   errorChainRuns, lastDecision>>
    /\ UNCHANGED <<authVars, cancelVars, chainVars, tokenVars, sendVars,
                   unauthVars, emitVars>>

Draws == IF retryConfig.jitter THEN RandomDraws ELSE {0}

NextRetry ==
    \/ \E partial \in PartialConfigs : Mgr_UpdateConfig(partial)
    \/ Mgr_ExecuteWithRetry
    \/ Mgr_OperationSucceeds
    \/ \E status \in FailStatuses, rnd \in Draws :
          Mgr_OperationFails(status, rnd)
    \/ Mgr_Wake
    \/ \E partial \in PartialConfigs : Client_UpdateRetryConfig(partial)
    \/ \E override \in {NoOverride} \cup (0..MaxRetriesBound) :
          Client_ExecuteRequest(override)
    \/ \E ok \in BOOLEAN : Client_RequestInterceptorsDone(ok)
    \/ \E status \in {SuccessStatus} \cup FailStatuses, rnd \in Draws :
          Client_FetchSettles(status, rnd)
    \/ \E ok \in BOOLEAN, rnd \in Draws :
          Client_ResponseInterceptorsDone(ok, rnd)
    \/ Client_Wake
    \/ \E msg \in ErrorMessages : Client_ErrorInterceptorsDone(msg)

SpecRetry == InitRetry /\ [][NextRetry]_vars

\* ------------------------------------------------------ retry: the claims

\* C4: RetryManager.shouldRetry(error, attemptIndex) is true if and only if
\* attemptIndex < maxRetries and retryCondition(error, attemptIndex) is true,
\* for every error and attempt index under the configuration in force, and
\* for the decision the retry loop took last; it is false for every error
\* when attemptIndex >= maxRetries.
C4_ShouldRetryIff ==
    engine = "RetryManager" =>
       LET holds(cfg, status, a) ==
               CASE cfg.retryCondition = "default" ->
                        status \in {NoStatus, 0}
                        \/ (status >= 500 /\ status < 600)
                 [] cfg.retryCondition = "always" -> TRUE
                 [] cfg.retryCondition = "only500" -> status = 500
                 [] cfg.retryCondition = "firstAttemptOnly" -> a = 0
                 [] OTHER -> FALSE
       IN  /\ \A status \in FailStatuses, a \in 0..(MaxRetriesBound + 1) :
                /\ shouldRetry(retryConfig, status, a)
                     <=> (a < retryConfig.maxRetries
                          /\ holds(retryConfig, status, a))
                /\ a >= retryConfig.maxRetries
                     => ~shouldRetry(retryConfig, status, a)
           /\ lastDecision.made =>
                /\ lastDecision.result
                     <=> (lastDecision.attempt < lastDecision.cfg.maxRetries
                          /\ holds(lastDecision.cfg, lastDecision.status,
                                   lastDecision.attempt))
                /\ lastDecision.attempt >= lastDecision.cfg.maxRetries
                     => ~lastDecision.result

\* The last attempt allowed failed with an error the condition would retry,
\* after an earlier failure was retried: shouldRetry answered false.
C4_Witness ==
    /\ engine = "RetryManager"
    /\ lastDecision.made
    /\ lastDecision.attempt >= 1
    /\ lastDecision.attempt = lastDecision.cfg.maxRetries
    /\ lastDecision.cfg.retryCondition = "default"
    /\ lastDecision.status = 500
    /\ ~lastDecision.result
    /\ Len(sleeps) = lastDecision.attempt

\* C5: the default retryCondition retries exactly the failures that carry no
\* status code (status undefined, or the 0 of a response without one) or
\* whose status is in [500, 600); a failure with a 4xx status is not retried.
C5_DefaultRetryCondition ==
    (/\ lastDecision.made
     /\ lastDecision.cfg.retryCondition = "default"
     /\ lastDecision.attempt < lastDecision.limit)
    => /\ lastDecision.result
            <=> \/ lastDecision.status \in {NoStatus, 0}
                \/ (lastDecision.status >= 500 /\ lastDecision.status < 600)
       /\ (lastDecision.status >= 400 /\ lastDecision.status < 500)
            => ~lastDecision.result

\* Under the default condition a failure was retried and the next one, a 404
\* with retries left, was not.
C5_Witness ==
    /\ lastDecision.made
    /\ lastDecision.cfg.retryCondition = "default"
    /\ lastDecision.status = 404
    /\ lastDecision.attempt = 1
    /\ lastDecision.attempt < lastDecision.limit
    /\ ~lastDecision.result
    /\ Len(sleeps) = 1

\* C6 (as amended): one logical call invokes the operation at least once and
\* at most (retry limit + 1) times, whatever the failures and whatever
\* retryCondition returns; the retry limit is maxRetries, or the call's own
\* retries where FetchClient.executeRequest is given one, with the retry
\* configuration left alone during the call.  A call of executeRequest whose
\* request interceptors fail ends before the loop, with no invocation.
C6_AttemptsBounded ==
    /\ engine = "RetryManager" =>
          /\ pc # "idle" => calls >= 1
          /\ ~cfgChangedInCall => calls <= retryConfig.maxRetries + 1
    /\ engine = "FetchClient" =>
          /\ pc \in {"idle", "reqInterceptors"} => calls = 0
          /\ pc \in {"running", "respInterceptors", "sleeping",
                     "errInterceptors"}
                => (calls >= 1 /\ calls <= retries + 1)
          /\ pc = "done" =>
                IF outcome.kind = "failure"
                   /\ outcome.msg = "requestInterceptor"
                THEN calls = 0
                ELSE calls >= 1 /\ calls <= retries + 1

\* A call that used every attempt of its limit: retry limit + 1 invocations,
\* more than one, all of them failed.
C6_Witness ==
    /\ pc = "done"
    /\ outcome.kind = "failure"
    /\ ~cfgChangedInCall
    /\ calls >= 3
    /\ calls = (IF engine = "FetchClient" THEN retries
                ELSE retryConfig.maxRetries) + 1

\* C6 as stated: every logical call invokes the operation at least once and
\* at most (retry limit + 1) times.
C6_Original ==
    (pc = "done" /\ ~cfgChangedInCall)
    => /\ calls >= 1
       /\ calls <= (IF engine = "FetchClient" THEN retries
                    ELSE retryConfig.maxRetries) + 1

\* C7: with jitter disabled, a call that succeeds on attempt k after k
\* retried failures slept exactly k times, the i-th sleep (i = 0..k-1)
\* lasting min(baseDelay * backoffFactor^i, maxDelay), one sleep between a
\* failed attempt and the next attempt; the caller receives the success
\* result and no error interceptor ran.
C7_SleepsWithoutJitter ==
    (~retryConfig.jitter /\ ~cfgChangedInCall) =>
       /\ pc \in {"running", "respInterceptors"}
             => (calls = attempt + 1 /\ Len(sleeps) = attempt)
       /\ pc = "sleeping" => (calls = attempt + 1 /\ Len(sleeps) = attempt + 1)
       /\ \A i \in 1..Len(sleeps) :
             sleeps[i] = Scale * Min(retryConfig.baseDelay
                                       * Pow(retryConfig.backoffFactor, i - 1),
                                     retryConfig.maxDelay)
       /\ (pc = "done" /\ outcome.kind = "success") =>
             /\ attempt <= (IF engine = "FetchClient" THEN retries
                            ELSE retryConfig.maxRetries)
             /\ Len(sleeps) = attempt
             /\ calls = attempt + 1
             /\ outcome = Success
             /\ errorChainRuns = 0

\* maxRetries = 2, baseDelay = 100, backoffFactor = 2, no jitter: two
\* retried failures, sleeps of 100 then 200, success on attempt 2.
C7_Witness ==
    /\ pc = "done"
    /\ outcome.kind = "success"
    /\ ~retryConfig.jitter /\ ~cfgChangedInCall
    /\ retryConfig.maxRetries = 2
    /\ retryConfig.baseDelay = 100 /\ retryConfig.backoffFactor = 2
    /\ attempt = 2
    /\ sleeps = <<Scale * 100, Scale * 200>>
    /\ errorChainRuns = 0

\* C8: when a failed attempt is not retryable (shouldRetry is false), the
\* retry loop stops at once: no sleep and no attempt follows that decision,
\* and the caller receives a failure carrying the status of that last error.
C8_NonRetryableStopsLoop ==
    (lastDecision.made /\ ~lastDecision.result) =>
       /\ pc \in {"errInterceptors", "done"}
       /\ attempt = lastDecision.attempt
       /\ calls = lastDecision.attempt + 1
       /\ Len(sleeps) = lastDecision.attempt
       /\ pc = "done" =>
             /\ outcome.kind = "failure"
             /\ outcome.status = lastDecision.status

\* A 404 on the first attempt under the default condition, retries left:
\* one attempt, no sleep, and the caller's failure carries 404.
C8_Witness ==
    /\ pc = "done"
    /\ lastDecision.made /\ ~lastDecision.result
    /\ lastDecision.cfg.retryCondition = "default"
    /\ lastDecision.status = 404
    /\ lastDecision.attempt = 0
    /\ lastDecision.limit >= 1
    /\ calls = 1
    /\ sleeps = <<>>
    /\ outcome.kind = "failure" /\ outcome.status = 404

\* C9: for every attempt index and every configuration with baseDelay >= 0,
\* maxDelay >= 0 and backoffFactor > 1, calculateRetryDelay is never greater
\* than maxDelay and never negative, with any jitter draw and without
\* jitter; so is every delay the retry loop has slept.
C9_DelayWithinBounds ==
    LET inContract(cfg) ==
            cfg.baseDelay >= 0 /\ cfg.maxDelay >= 0 /\ cfg.backoffFactor > 1
    IN  /\ inContract(retryConfig) =>
             \A a \in 0..(MaxRetriesBound + 1), rnd \in 0..(RandDenom - 1) :
                LET d == IF engine = "FetchClient"
                         THEN clientCalculateRetryDelay(retryConfig, a, rnd)
                         ELSE calculateRetryDelay(retryConfig, a, rnd)
                IN  d >= 0 /\ d <= Scale * retryConfig.maxDelay
        /\ (lastDecision.made /\ lastDecision.result
            /\ inContract(lastDecision.cfg)) =>
             /\ lastDecision.delay >= 0
             /\ lastDecision.delay <= Scale * lastDecision.cfg.maxDelay
             /\ sleeps[Len(sleeps)] = lastDecision.delay

\* Jitter enabled and a delay that the backoff, jitter included, takes past
\* maxDelay: the loop sleeps exactly maxDelay.
C9_Witness ==
    /\ lastDecision.made /\ lastDecision.result
    /\ lastDecision.cfg.jitter
    /\ lastDecision.attempt >= 1
    /\ 9 * lastDecision.cfg.baseDelay
         * Pow(lastDecision.cfg.backoffFactor, lastDecision.attempt)
       > 10 * lastDecision.cfg.maxDelay
    /\ lastDecision.delay = Scale * lastDecision.cfg.maxDelay
    /\ pc = "sleeping"

\* C10 (as amended): for one call of FetchClient that reached its first
\* attempt, the error-interceptor chain is run exactly once if the call ends
\* in failure, after the last attempt (the one shouldRetry refused to
\* retry), never between attempts and never for a call that ends in
\* success; a call whose request interceptors fail ends in failure before
\* any attempt and without the error-interceptor chain being run.
C10_ErrorChainOnce ==
    engine = "FetchClient" =>
       /\ errorChainRuns <= 1
       /\ pc \in {"idle", "reqInterceptors", "running", "respInterceptors",
                  "sleeping"} => errorChainRuns = 0
       /\ pc = "errInterceptors" => errorChainRuns = 1
       /\ errorChainRuns = 1 =>
             /\ lastDecision.made /\ ~lastDecision.result
             /\ calls = lastDecision.attempt + 1
             /\ lastError = lastDecision.status
       /\ pc = "done" =>
             /\ outcome.kind = "success" => errorChainRuns = 0
             /\ outcome.kind = "failure" =>
                   errorChainRuns = (IF calls = 0 THEN 0 ELSE 1)
             /\ calls = 0 => outcome = Failure(NoStatus, "requestInterceptor")

\* A call that failed on its last attempt after a retry: the chain ran once
\* and the caller received the error it returned.
C10_Witness ==
    /\ engine = "FetchClient"
    /\ pc = "done"
    /\ outcome.kind = "failure"
    /\ outcome.msg = "transformed"
    /\ calls = 2
    /\ Len(sleeps) = 1
    /\ errorChainRuns = 1

\* C10 as stated: the error-interceptor chain is run exactly once if the
\* call ends in failure, and not at all if it ends in success.
C10_Original ==
    (engine = "FetchClient" /\ pc = "done") =>
       /\ outcome.kind = "failure" => errorChainRuns = 1
       /\ outcome.kind = "success" => errorChainRuns = 0

\* ------------------------------------- cancellation and timeout of a call

MaxTicks == 3

\* config.timeout || 10000, RequestExecutor(baseURL, timeout = 10000): ticks
DefaultTimeouts == {1, 2}
\* RequestConfig.timeout: absent, 0, or a number of ticks
RequestTimeouts == {NoOverride, 0, 1}
\* RequestConfig.signal: absent, supplied, supplied and already aborted
Signals == {"none", "live", "aborted"}
\* what a transport attempt can fail with, cancellation apart
CancelStatuses == {NoStatus, 404, 500}

\* const { timeout = this.config.timeout, ... } = config
EffectiveTimeout_default(override, default) == default
EffectiveTimeout(override, default) ==
    IF override = NoOverride THEN default ELSE override

\* const controller = signal ? undefined : new AbortController();
\* if (controller && timeout) { timeoutId = setTimeout(...) }
TimerArms(given, t) == ~given /\ t # 0

Mark == [seen |-> TRUE, calls |-> calls, sleeps |-> Len(sleeps)]

\* new FetchClient(config) or new RequestExecutor(baseURL, timeout)
InitCancel ==
    /\ engine \in {"FetchClient", "RequestExecutor"}
    /\ \/ /\ engine = "FetchClient"
          /\ retryConfig \in
               {FetchClientConstructor(raw) : raw \in FetchClientRawConfigs}
       \/ /\ engine = "RequestExecutor"
          /\ retryConfig = IdleConfig
    /\ updates = 0
    /\ cfgChangedInCall = FALSE
    /\ pc = "idle"
    /\ reqRetries = NoOverride
    /\ retries = 0
    /\ attempt = 0
    /\ calls = 0
    /\ sleeps = <<>>
    /\ fetchError = Unset
    /\ lastError = Unset
    /\ errorChainRuns = 0
    /\ outcome = NoOutcome
    /\ lastDecision = NoDecision
    /\ signalGiven = FALSE
    /\ callerAborted = FALSE
    /\ defaultTimeout \in DefaultTimeouts
    /\ reqTimeout = NoOverride
    /\ timeout = 0
    /\ timerArmed = FALSE
    /\ abortCause = "none"
    /\ elapsed = 0
    /\ cancelMark = NoMark
    /\ sleepCancel = NoMark
    /\ AuthIdle
    /\ ChainIdle
    /\ TokenIdle
    /\ SendIdle
    /\ UnauthIdle
    /\ EmitIdle

\* The top of an attempt: controller, timer, and the call of fetch with the
\* caller's signal or the controller's.
StartFetch(t) ==
    /\ calls' = calls + 1
    /\ pc' = "running"
    /\ elapsed' = 0
    /\ timerArmed' = TimerArms(signalGiven', t)
    /\ abortCause' = IF callerAborted' THEN "caller" ELSE "none"

\* FetchClient.executeRequest(url, config) up to
\* `await this.applyRequestInterceptors(config)`.
Cn_ExecuteRequest(t, sig) ==
    /\ engine = "FetchClient"
    /\ pc = "idle"
    /\ pc' = "reqInterceptors"
    /\ reqTimeout' = t
    /\ signalGiven' = (sig # "none")
    /\ callerAborted' = (sig = "aborted")
    /\ UNCHANGED <<engine, retryConfig, updates, cfgChangedInCall, reqRetries,
                   retries, attempt, calls, sleeps, fetchError, lastError,
                   errorChainRuns, outcome, lastDecision>>
    /\ UNCHANGED <<defaultTimeout, timeout, timerArmed, abortCause, elapsed,
                   cancelMark, sleepCancel>>
    /\ UNCHANGED <<authVars, chainVars, tokenVars, sendVars,
                   unauthVars, emitVars>>

\* The request interceptors return or one throws; on return the config is
\* destructured, the loop entered and the first attempt started.
Cn_RequestInterceptorsDone(ok) ==
    /\ engine = "FetchClient"
    /\ pc = "reqInterceptors"
    /\ UNCHANGED <<signalGiven, callerAborted>>
    /\ IF ok
       THEN /\ timeout' = EffectiveTimeout(reqTimeout, defaultTimeout)
            /\ retries' = retryConfig.maxRetries
            /\ attempt' = 0
            /\ StartFetch(timeout')
            /\ UNCHANGED outcome
       ELSE /\ pc' = "done"
            /\ outcome' = Failure(NoStatus, "requestInterceptor")
            /\ UNCHANGED <<timeout, retries, attempt, calls, elapsed,
                           timerArmed, abortCause>>
    /\ UNCHANGED <<engine, retryConfig, updates, cfgChangedInCall, reqRetries,
                   sleeps, fetchError, lastError, errorChainRuns,
                   lastDecision>>
    /\ UNCHANGED <<defaultTimeout, reqTimeout, cancelMark, sleepCancel>>
    /\ UNCHANGED <<authVars, chainVars, tokenVars, sendVars,
                   unauthVars, emitVars>>

\* RequestExecutor.executeRequest(url, config) up to `await fetch(...)`.
Ex_ExecuteRequest(t, sig) ==
    /\ engine = "RequestExecutor"
    /\ pc = "idle"
    /\ reqTimeout' = t
    /\ signalGiven' = (sig # "none")
    /\ callerAborted' = (sig = "aborted")
    /\ timeout' = EffectiveTimeout(t, defaultTimeout)
    /\ StartFetch(timeout')
    /\ UNCHANGED <<engine, retryConfig, updates, cfgChangedInCall, reqRetries,
                   retries, attempt, sleeps, fetchError, lastError,
                   errorChainRuns, outcome, lastDecision>>
    /\ UNCHANGED <<defaultTimeout, cancelMark, sleepCancel>>
    /\ UNCHANGED <<authVars, chainVars, tokenVars, sendVars,
                   unauthVars, emitVars>>

\* RequestExecutor.executeRequest: catch { clearTimeout; throw fetchError }
ExecutorCatch(status) ==
    /\ fetchError' = status
    /\ pc' = "done"
    /\ outcome' = Failure(status, "")
    /\ UNCHANGED <<lastDecision, sleeps, lastError, errorChainRuns>>

AttemptCatch(status, rnd) ==
    IF engine = "FetchClient" THEN ClientCatch(status, rnd)
    ELSE ExecutorCatch(status)

\* The caller aborts the signal it supplied.  A fetch or a body read in
\* flight on that signal is rejected; a sleep has no listener on it.
Cn_CallerAbort ==
    /\ signalGiven /\ ~callerAborted
    /\ pc \notin {"idle", "done"}
    /\ callerAborted' = TRUE
    /\ abortCause' = IF pc \in {"running", "parsing"} THEN "caller"
                     ELSE abortCause
    /\ sleepCancel' = IF pc = "sleeping" /\ ~sleepCancel.seen THEN Mark
                      ELSE sleepCancel
    /\ UNCHANGED retryVars
    /\ UNCHANGED <<signalGiven, defaultTimeout, reqTimeout, timeout,
                   timerArmed, elapsed, cancelMark>>
    /\ UNCHANGED <<authVars, chainVars, tokenVars, sendVars,
                   unauthVars, emitVars>>

\* setTimeout(() => controller.abort(), timeout) comes due.
Cn_TimeoutFires ==
    /\ timerArmed
    /\ elapsed >= timeout
    /\ timerArmed' = FALSE
    /\ abortCause' = IF pc = "running" /\ abortCause = "none" THEN "timeout"
                     ELSE abortCause
    /\ UNCHANGED retryVars
    /\ UNCHANGED <<signalGiven, callerAborted, defaultTimeout, reqTimeout,
                   timeout, elapsed, cancelMark, sleepCancel>>
    /\ UNCHANGED <<authVars, chainVars, tokenVars, sendVars,
                   unauthVars, emitVars>>

\* Time passes while the transport works; a timer that is due fires first,
\* and an aborted fetch is rejected before any time passes.
Cn_Tick ==
    /\ pc \in {"running", "parsing"}
    /\ abortCause = "none"
    /\ elapsed < MaxTicks
    /\ ~(timerArmed /\ elapsed >= timeout)
    /\ elapsed' = elapsed + 1
    /\ UNCHANGED retryVars
    /\ UNCHANGED <<signalGiven, callerAborted, defaultTimeout, reqTimeout,
                   timeout, timerArmed, abortCause, cancelMark, sleepCancel>>
    /\ UNCHANGED <<authVars, chainVars, tokenVars, sendVars,
                   unauthVars, emitVars>>

\* fetch settles on its own: a response (clearTimeout, then the throw of a
\* non-2xx status) or a rejection.  The timer of a rejected attempt of
\* FetchClient stays pending, for a controller no longer in use: it is
\* dropped from the state.
Cn_FetchSettles(status, rnd) ==
    /\ pc = "running"
    /\ abortCause = "none"
    /\ timerArmed' = FALSE
    /\ IF ResponseOk(status)
       THEN /\ pc' = "parsing"
            /\ UNCHANGED <<sleeps, fetchError, lastError, errorChainRuns,
                           outcome, lastDecision>>
       ELSE AttemptCatch(status, rnd)
    /\ UNCHANGED <<engine, retryConfig, updates, cfgChangedInCall, reqRetries,
                   retries, attempt, calls>>
    /\ UNCHANGED <<signalGiven, callerAborted, defaultTimeout, reqTimeout,
                   timeout, abortCause, elapsed, cancelMark, sleepCancel>>
    /\ UNCHANGED <<authVars, chainVars, tokenVars, sendVars,
                   unauthVars, emitVars>>

\* fetch is rejected because its signal is aborted (AbortError, no status).
Cn_FetchAborted(rnd) ==
    /\ pc = "running"
    /\ abortCause # "none"
    /\ timerArmed' = FALSE
    /\ cancelMark' = IF cancelMark.seen THEN cancelMark ELSE Mark
    /\ AttemptCatch(NoStatus, rnd)
    /\ UNCHANGED <<engine, retryConfig, updates, cfgChangedInCall, reqRetries,
                   retries, attempt, calls>>
    /\ UNCHANGED <<signalGiven, callerAborted, defaultTimeout, reqTimeout,
                   timeout, abortCause, elapsed, sleepCancel>>
    /\ UNCHANGED <<authVars, chainVars, tokenVars, sendVars,
                   unauthVars, emitVars>>

\* response.json() / response.text() resolves.
Cn_BodyRead ==
    /\ pc = "parsing"
    /\ abortCause = "none"
    /\ IF engine = "FetchClient"
       THEN pc' = "respInterceptors" /\ UNCHANGED outcome
       ELSE pc' = "done" /\ outcome' = Success
    /\ UNCHANGED <<engine, retryConfig, updates, cfgChangedInCall, reqRetries,
                   retries, attempt, calls, sleeps, fetchError, lastError,
                   errorChainRuns, lastDecision>>
    /\ UNCHANGED cancelVars
    /\ UNCHANGED <<authVars, chainVars, tokenVars, sendVars,
                   unauthVars, emitVars>>

\* The body read is rejected because the caller's signal is aborted.
Cn_BodyAborted(rnd) ==
    /\ pc = "parsing"
    /\ abortCause # "none"
    /\ cancelMark' = IF cancelMark.seen THEN cancelMark ELSE Mark
    /\ AttemptCatch(NoStatus, rnd)
    /\ UNCHANGED <<engine, retryConfig, updates, cfgChangedInCall, reqRetries,
                   retries, attempt, calls>>
    /\ UNCHANGED <<signalGiven, callerAborted, defaultTimeout, reqTimeout,
                   timeout, timerArmed, abortCause, elapsed, sleepCancel>>
    /\ UNCHANGED <<authVars, chainVars, tokenVars, sendVars,
                   unauthVars, emitVars>>

\* `return await this.applyResponseInterceptors(fetchResponse)`
Cn_ResponseInterceptorsDone(ok, rnd) ==
    /\ engine = "FetchClient"
    /\ pc = "respInterceptors"
    /\ IF ok
       THEN /\ pc' = "done"
            /\ outcome' = Success
            /\ UNCHANGED <<sleeps, fetchError, lastError, errorChainRuns,
                           lastDecision>>
       ELSE ClientCatch(NoStatus, rnd)
    /\ UNCHANGED <<engine, retryConfig, updates, cfgChangedInCall, reqRetries,
                   retries, attempt, calls>>
    /\ UNCHANGED cancelVars
    /\ UNCHANGED <<authVars, chainVars, tokenVars, sendVars,
                   unauthVars, emitVars>>

\* `await this.sleep(delay)` ends, whatever happened to the signal meanwhile:
\* lastError = fetchError, attempt++, the loop test and the next attempt.
Cn_Wake ==
    /\ engine = "FetchClient"
    /\ pc = "sleeping"
    /\ lastError' = fetchError
    /\ attempt' = attempt + 1
    /\ UNCHANGED <<signalGiven, callerAborted>>
    /\ IF clientLoopContinues(attempt + 1, retries)
       THEN /\ StartFetch(timeout)
            /\ UNCHANGED <<errorChainRuns, outcome>>
       ELSE /\ UNCHANGED <<calls, elapsed, timerArmed, abortCause>>
            /\ IF ErrorChainApplies(fetchError)
               THEN /\ pc' = "errInterceptors"
                    /\ errorChainRuns' = errorChainRuns + 1
                    /\ UNCHANGED outcome
               ELSE /\ pc' = "done"
                    /\ outcome' = Failure(NoStatus, "unknown")
                    /\ UNCHANGED errorChainRuns
    /\ UNCHANGED <<engine, retryConfig, updates, cfgChangedInCall, reqRetries,
                   retries, sleeps, fetchError, lastDecision>>
    /\ UNCHANGED <<defaultTimeout, reqTimeout, timeout, cancelMark,
                   sleepCancel>>
    /\ UNCHANGED <<authVars, chainVars, tokenVars, sendVars,
                   unauthVars, emitVars>>

\* `throw processedError`
Cn_ErrorInterceptorsDone(msg) ==
    /\ engine = "FetchClient"
    /\ pc = "errInterceptors"
    /\ pc' = "done"
    /\ outcome' = Failure(lastError, msg)
    /\ UNCHANGED <<engine, retryConfig, updates, cfgChangedInCall, reqRetries,
                   retries, attempt, calls, sleeps, fetchError, lastError,
                   errorChainRuns, lastDecision>>
    /\ UNCHANGED cancelVars
    /\ UNCHANGED <<authVars, chainVars, tokenVars, sendVars,
                   unauthVars, emitVars>>

NextCancel ==
    \/ \E t \in RequestTimeouts, sig \in Signals : Cn_ExecuteRequest(t, sig)
    \/ \E ok \in BOOLEAN : Cn_RequestInterceptorsDone(ok)
    \/ \E t \in RequestTimeouts, sig \in Signals : Ex_ExecuteRequest(t, sig)
    \/ Cn_CallerAbort
    \/ Cn_TimeoutFires
    \/ Cn_Tick
    \/ \E status \in {SuccessStatus} \cup CancelStatuses, rnd \in Draws :
          Cn_FetchSettles(status, rnd)
    \/ \E rnd \in Draws : Cn_FetchAborted(rnd)
    \/ Cn_BodyRead
    \/ \E rnd \in Draws : Cn_BodyAborted(rnd)
    \/ \E ok \in BOOLEAN, rnd \in Draws : Cn_ResponseInterceptorsDone(ok, rnd)
    \/ Cn_Wake
    \/ \E msg \in ErrorMessages : Cn_ErrorInterceptorsDone(msg)

SpecCancel == InitCancel /\ [][NextCancel]_vars

\* ------------------------------- cancellation and timeout: the claims

\* C11: a cancellation, by the caller's signal or by the timeout, is never
\* retried: once an attempt has failed because its signal was aborted, no
\* sleep and no further transport attempt happens for that call.
C11_CancellationNotRetried ==
    cancelMark.seen =>
       /\ calls = cancelMark.calls
       /\ Len(sleeps) = cancelMark.sleeps

\* C12: once the caller has cancelled during a sleep of the retry loop, no
\* further transport attempt is started.
C12_CancelDuringSleepStopsLoop ==
    sleepCancel.seen => calls = sleepCancel.calls

MaxRegistrations == 2   \* add*Interceptor calls in a behaviour
MaxHandleCalls == 2     \* calls of de-registration handles in a behaviour
MaxPasses == 1          \* apply*Interceptors calls made on the manager

\* Two interceptor functions, as the two of each kind the chain-order test
\* registers.
Fns == {1, 2}
Kinds == {"request", "response", "error"}

\* Array.prototype.indexOf on a list of functions: the first position holding
\* f, 0 for the code's -1.
IndexOf(list, f) ==
    IF \E i \in 1..Len(list) : list[i] = f
    THEN CHOOSE i \in 1..Len(list) :
             list[i] = f /\ \A j \in 1..(i - 1) : list[j] # f
    ELSE 0

\* list.splice(i, 1)
Splice(list, i) == SubSeq(list, 1, i - 1) \o SubSeq(list, i + 1, Len(list))

HandleRemoves_last(list, f) == SubSeq(list, 1, Len(list) - 1)
\* The body of a de-registration handle.
HandleRemoves(list, f) ==
    IF IndexOf(list, f) > 0 THEN Splice(list, IndexOf(list, f)) ELSE list

\* What a pass works on: { ...config }, { ...response }, cloneError(error)
\* and, in FetchClient, { ...error }, which copies the enumerable own
\* properties only and so loses the message and the prototype of an Error.
Clone(eng, kind, v) ==
    IF eng = "FetchClient" /\ kind = "error"
    THEN Value(v.applied, FALSE, v.origin)
    ELSE v

\* An interceptor that returns: its output carries its own transformation
\* after those already in its input.
Transform(f, v) == Value(Append(v.applied, f), v.intact, v.origin)

\* The exception interceptor f throws.
Exception(f) == Value(<<>>, TRUE, f)

Invocation(f, v) == [fn |-> f, input |-> v]

PassRunning == pass.kind # "none" /\ pass.outcome.kind = "none"

StartPass_ignoresSwitch(kind, input) ==
    LET list == interceptors[kind]
        v == Clone(chainEngine, kind, input)
        base == [NoPass EXCEPT !.kind = kind, !.input = input,
                               !.startList = list,
                               !.startEnabled = enabledInterceptors]
    IN  IF Len(list) = 0
        THEN [base EXCEPT !.value = v, !.outcome = Returned(v)]
        ELSE [base EXCEPT !.value = v, !.idx = 1,
                          !.trace = <<Invocation(list[1], v)>>]
\* apply*Interceptors up to its first await: the switch, the copy, and the
\* invocation of the first interceptor of the list.
StartPass(kind, input) ==
    LET list == interceptors[kind]
        v == Clone(chainEngine, kind, input)
        base == [NoPass EXCEPT !.kind = kind, !.input = input,
                               !.startList = list,
                               !.startEnabled = enabledInterceptors]
    IN  IF ~enabledInterceptors
        THEN [base EXCEPT !.value = input, !.outcome = Returned(input)]
        ELSE IF Len(list) = 0
        THEN [base EXCEPT !.value = v, !.outcome = Returned(v)]
        ELSE [base EXCEPT !.value = v, !.idx = 1,
                          !.trace = <<Invocation(list[1], v)>>]

InitChain ==
    /\ chainEngine \in {"InterceptorManager", "FetchClient"}
    /\ enabledInterceptors \in BOOLEAN
    /\ interceptors = NoInterceptors
    /\ registrations = <<>>
    /\ pass = NoPass
    /\ passCount = 0
    /\ callPc = "idle"
    /\ transportCalls = 0
    /\ callOutcome = NoSettlement
    /\ AuthIdle
    /\ RetryIdle
    /\ CancelIdle
    /\ TokenIdle
    /\ SendIdle
    /\ UnauthIdle
    /\ EmitIdle

\* addRequestInterceptor / addResponseInterceptor / addErrorInterceptor
Ic_Add(kind, f) ==
    /\ Len(registrations) < MaxRegistrations
    /\ interceptors' = [interceptors EXCEPT ![kind] = Append(@, f)]
    /\ registrations' =
           Append(registrations, [kind |-> kind, fn |-> f, calls |-> 0])
    /\ pass' = IF PassRunning /\ pass.kind = kind
               THEN [pass EXCEPT !.added = @ \cup {f}, !.mutated = TRUE]
               ELSE pass
    /\ UNCHANGED <<chainEngine, enabledInterceptors, passCount, callPc,
                   transportCalls, callOutcome>>
    /\ UNCHANGED <<authVars, retryVars, cancelVars, tokenVars, sendVars,
                   unauthVars, emitVars>>

RECURSIVE HandleCalls(_)
\* history: the handle calls made so far
HandleCalls(regs) ==
    IF regs = <<>> THEN 0 ELSE Head(regs).calls + HandleCalls(Tail(regs))

\* A call of the handle that registration r returned.
Ic_Handle(r) ==
    /\ r \in 1..Len(registrations)
    /\ HandleCalls(registrations) < MaxHandleCalls
    /\ LET kind == registrations[r].kind
           list == HandleRemoves(interceptors[kind], registrations[r].fn)
       IN  /\ interceptors' = [interceptors EXCEPT ![kind] = list]
           /\ pass' = IF PassRunning /\ pass.kind = kind
                         /\ list # interceptors[kind]
                      THEN [pass EXCEPT !.mutated = TRUE]
                      ELSE pass
    /\ registrations' = [registrations EXCEPT ![r].calls = @ + 1]
    /\ UNCHANGED <<chainEngine, enabledInterceptors, passCount, callPc,
                   transportCalls, callOutcome>>
    /\ UNCHANGED <<authVars, retryVars, cancelVars, tokenVars, sendVars,
                   unauthVars, emitVars>>

\* InterceptorManager.setInterceptorsEnabled
Ic_SetEnabled(b) ==
    /\ chainEngine = "InterceptorManager"
    /\ b # enabledInterceptors
    /\ enabledInterceptors' = b
    /\ UNCHANGED <<chainEngine, interceptors, registrations, pass, passCount,
                   callPc, transportCalls, callOutcome>>
    /\ UNCHANGED <<authVars, retryVars, cancelVars, tokenVars, sendVars,
                   unauthVars, emitVars>>

\* A caller of the manager calls applyRequestInterceptors,
\* applyResponseInterceptors or applyErrorInterceptors.
Ic_Apply(kind) ==
    /\ chainEngine = "InterceptorManager"
    /\ ~PassRunning
    /\ passCount < MaxPasses
    /\ pass' = StartPass(kind, Original)
    /\ passCount' = passCount + 1
    /\ UNCHANGED <<chainEngine, enabledInterceptors, interceptors,
                   registrations, callPc, transportCalls, callOutcome>>
    /\ UNCHANGED <<authVars, retryVars, cancelVars, tokenVars, sendVars,
                   unauthVars, emitVars>>

ErrorChainCatch_keepsValue(p) == [p EXCEPT !.outcome = Returned(p.value)]
\* The catch clause of the error chain: return error, the argument of the
\* pass.
ErrorChainCatch(p) == [p EXCEPT !.outcome = Returned(p.input)]

ThrowSettles_continues(p) ==
    IF p.idx < Len(interceptors[p.kind])
    THEN [p EXCEPT !.idx = @ + 1,
                   !.trace = Append(@, Invocation(
                                 interceptors[p.kind][p.idx + 1], p.value))]
    ELSE [p EXCEPT !.outcome = Returned(p.value)]
\* The catch clause around the invocation of an interceptor: request and
\* response chains rethrow, the error chain returns the error it was given.
ThrowSettles(p) ==
    IF p.kind = "error"
    THEN ErrorChainCatch(p)
    ELSE [p EXCEPT !.outcome = Rejected(p.trace[Len(p.trace)].fn)]

ReturnSettles_lastInput(p) ==
    LET v == Transform(p.trace[Len(p.trace)].fn, p.value)
    IN  IF p.idx < Len(interceptors[p.kind])
        THEN [p EXCEPT !.value = v, !.idx = @ + 1,
                       !.trace = Append(@, Invocation(
                                     interceptors[p.kind][p.idx + 1], p.input))]
        ELSE [p EXCEPT !.value = v, !.outcome = Returned(v)]
\* The interceptor returned: its output replaces the value, and the for-of
\* loop takes the next element of the list as it is now, or ends.
ReturnSettles(p) ==
    LET v == Transform(p.trace[Len(p.trace)].fn, p.value)
    IN  IF p.idx < Len(interceptors[p.kind])
        THEN [p EXCEPT !.value = v, !.idx = @ + 1,
                       !.trace = Append(@, Invocation(
                                     interceptors[p.kind][p.idx + 1], v))]
        ELSE [p EXCEPT !.value = v, !.outcome = Returned(v)]

\* The interceptor that was invoked last returns (ok) or throws.
Ic_InterceptorSettles(ok) ==
    /\ PassRunning
    /\ pass' = IF ok
               THEN ReturnSettles(pass)
               ELSE ThrowSettles([pass EXCEPT
                                     !.thrown = Append(@, Len(pass.trace))])
    /\ UNCHANGED <<chainEngine, enabledInterceptors, interceptors,
                   registrations, passCount, callPc, transportCalls,
                   callOutcome>>
    /\ UNCHANGED <<authVars, retryVars, cancelVars, tokenVars, sendVars,
                   unauthVars, emitVars>>

\* FetchClient.executeRequest of a client built with retries: 0, up to the
\* await of its request chain.
Ch_ExecuteRequest ==
    /\ chainEngine = "FetchClient"
    /\ callPc = "idle"
    /\ pass' = StartPass("request", Original)
    /\ passCount' = passCount + 1
    /\ callPc' = "request"
    /\ UNCHANGED <<chainEngine, enabledInterceptors, interceptors,
                   registrations, transportCalls, callOutcome>>
    /\ UNCHANGED <<authVars, retryVars, cancelVars, tokenVars, sendVars,
                   unauthVars, emitVars>>

RequestChainRejected_fetches(p) == FALSE
\* The request chain rejected: the await at the head of executeRequest,
\* which no try encloses, rejects the call.
RequestChainRejected(p) == p.outcome.kind = "fail"

\* The request chain settled: the call is rejected, or fetch is called.
Ch_RequestInterceptorsDone ==
    /\ callPc = "request"
    /\ ~PassRunning
    /\ IF RequestChainRejected(pass)
       THEN /\ callPc' = "done"
            /\ callOutcome' = pass.outcome
            /\ UNCHANGED transportCalls
       ELSE /\ callPc' = "fetching"
            /\ transportCalls' = transportCalls + 1
            /\ UNCHANGED callOutcome
    /\ UNCHANGED <<chainEngine, enabledInterceptors, interceptors,
                   registrations, pass, passCount>>
    /\ UNCHANGED <<authVars, retryVars, cancelVars, tokenVars, sendVars,
                   unauthVars, emitVars>>

\* fetch settles: a response that is ok goes to the response chain; anything
\* else is caught, not retried (retries: 0), and goes to the error chain.
Ch_FetchSettles(ok) ==
    /\ callPc = "fetching"
    /\ pass' = StartPass(IF ok THEN "response" ELSE "error", Original)
    /\ passCount' = passCount + 1
    /\ callPc' = IF ok THEN "response" ELSE "error"
    /\ UNCHANGED <<chainEngine, enabledInterceptors, interceptors,
                   registrations, transportCalls, callOutcome>>
    /\ UNCHANGED <<authVars, retryVars, cancelVars, tokenVars, sendVars,
                   unauthVars, emitVars>>

\* The response chain settled: its value is returned, or its rejection is
\* caught by the attempt's catch clause and goes to the error chain.
Ch_ResponseInterceptorsDone ==
    /\ callPc = "response"
    /\ ~PassRunning
    /\ IF pass.outcome.kind = "ok"
       THEN /\ callPc' = "done"
            /\ callOutcome' = pass.outcome
            /\ UNCHANGED <<pass, passCount>>
       ELSE /\ callPc' = "error"
            /\ pass' = StartPass("error", Exception(pass.outcome.by))
            /\ passCount' = passCount + 1
            /\ UNCHANGED callOutcome
    /\ UNCHANGED <<chainEngine, enabledInterceptors, interceptors,
                   registrations, transportCalls>>
    /\ UNCHANGED <<authVars, retryVars, cancelVars, tokenVars, sendVars,
                   unauthVars, emitVars>>

\* The error chain returned: the call throws what it returned.
Ch_ErrorInterceptorsDone ==
    /\ callPc = "error"
    /\ ~PassRunning
    /\ callPc' = "done"
    /\ callOutcome' = [kind |-> "fail", value |-> pass.outcome.value, by |-> 0]
    /\ UNCHANGED <<chainEngine, enabledInterceptors, interceptors,
                   registrations, pass, passCount, transportCalls>>
    /\ UNCHANGED <<authVars, retryVars, cancelVars, tokenVars, sendVars,
                   unauthVars, emitVars>>

NextChain ==
    \/ \E kind \in Kinds, f \in Fns : Ic_Add(kind, f)
    \/ \E r \in 1..MaxRegistrations : Ic_Handle(r)
    \/ \E b \in BOOLEAN : Ic_SetEnabled(b)
    \/ \E kind \in Kinds : Ic_Apply(kind)
    \/ \E ok \in BOOLEAN : Ic_InterceptorSettles(ok)
    \/ Ch_ExecuteRequest
    \/ Ch_RequestInterceptorsDone
    \/ \E ok \in BOOLEAN : Ch_FetchSettles(ok)
    \/ Ch_ResponseInterceptorsDone
    \/ Ch_ErrorInterceptorsDone

SpecChain == InitChain /\ [][NextChain]_vars

(***************************************************************************)
(* Claims about the interceptor chains                                     *)
(***************************************************************************)

Range(seq) == {seq[i] : i \in 1..Len(seq)}
Invoked(p) == {p.trace[i].fn : i \in 1..Len(p.trace)}
Without(list, f) == SelectSeq(list, LAMBDA g : g # f)

\* Every registration of f in the list of that kind has had its handle called.
Deregistered(kind, f) ==
    /\ \E r \in 1..Len(registrations) :
           registrations[r].kind = kind /\ registrations[r].fn = f
    /\ \A r \in 1..Len(registrations) :
           (registrations[r].kind = kind /\ registrations[r].fn = f)
               => registrations[r].calls >= 1

\* The step is a call of the handle of registration r.
HandleStep(r) ==
    /\ r \in 1..Len(registrations)
    /\ Len(registrations') = Len(registrations)
    /\ registrations'[r].calls = registrations[r].calls + 1

C15_HandleIdempotent ==
    [][\A r \in 1..Len(registrations) :
          (HandleStep(r) /\ registrations[r].calls >= 1)
              => interceptors' = interceptors]_vars

TraceFns(p) == [i \in 1..Len(p.trace) |-> p.trace[i].fn]

\* C16: a request or response pass over a list that is not changed meanwhile
\* invokes the registered interceptors one after the other in registration
\* order, each once, the first on the value passed in and each later one on
\* what the one before returned; the pass returns what the last returned.
C16_ChainInOrder ==
    (pass.kind \in {"request", "response"} /\ pass.startEnabled
       /\ ~pass.mutated) =>
        /\ TraceFns(pass) = SubSeq(pass.startList, 1, Len(pass.trace))
        /\ \A i \in 1..Len(pass.trace) :
               pass.trace[i].input =
                   IF i = 1 THEN pass.input
                   ELSE Transform(pass.trace[i - 1].fn, pass.trace[i - 1].input)
        /\ pass.outcome.kind = "ok" =>
               /\ TraceFns(pass) = pass.startList
               /\ pass.outcome.value.applied = pass.startList
               /\ pass.outcome.value =
                      IF pass.startList = <<>> THEN pass.input
                      ELSE Transform(pass.trace[Len(pass.trace)].fn,
                                     pass.trace[Len(pass.trace)].input)

\* [addHeader X-A, addHeader X-B]: the pass returned the value with both
\* transformations, X-A first.
C16_Witness ==
    /\ pass.kind = "request"
    /\ pass.startEnabled
    /\ ~pass.mutated
    /\ pass.startList = <<1, 2>>
    /\ pass.outcome.kind = "ok"
    /\ pass.outcome.value.applied = <<1, 2>>
    /\ pass.trace[2].input.applied = <<1>>

\* An interceptor invoked by the request pass threw.
RequestPassThrew == pass.kind = "request" /\ pass.thrown # <<>>

\* C17: when a request interceptor throws, the request pass is rejected with
\* that exception and invokes no interceptor after the one that threw; in a
\* call of FetchClient, fetch is not called, no other chain is run, and the
\* call is rejected with the same exception.
C17_RequestFailureAborts ==
    /\ [](RequestPassThrew =>
             /\ Len(pass.trace) = pass.thrown[1]
             /\ pass.outcome = Rejected(pass.trace[pass.thrown[1]].fn)
             /\ chainEngine = "FetchClient" =>
                    /\ transportCalls = 0
                    /\ passCount = 1
                    /\ callPc \in {"request", "done"}
                    /\ callPc = "done" => callOutcome = pass.outcome)
    /\ [][(RequestPassThrew /\ chainEngine = "FetchClient")
             => pass' = pass]_vars

\* The first of two request interceptors threw: the second was not invoked
\* and the call was rejected without a fetch.
C17_Witness ==
    /\ chainEngine = "FetchClient"
    /\ RequestPassThrew
    /\ pass.startList = <<1, 2>>
    /\ interceptors.request = <<1, 2>>
    /\ Len(pass.trace) = 1
    /\ callPc = "done"
    /\ callOutcome = Rejected(1)
    /\ transportCalls = 0

\* An interceptor invoked by the error pass threw.
ErrorPassThrew == pass.kind = "error" /\ pass.thrown # <<>>

Succeeded(p) ==
    LET kept == SelectSeq([i \in 1..Len(p.trace) |-> i],
                          LAMBDA i : \A j \in 1..Len(p.thrown) :
                                         p.thrown[j] # i)
    IN  [k \in 1..Len(kept) |-> p.trace[kept[k]].fn]

ErrorPassReturned ==
    pass.kind = "error" /\ pass.startEnabled /\ pass.outcome.kind # "none"

C20_DisabledIsIdentity ==
    /\ []((pass.kind # "none" /\ ~pass.startEnabled) =>
             /\ pass.trace = <<>>
             /\ pass.outcome = Returned(pass.input))
    /\ []((pass.kind # "none" /\ pass.startEnabled
             /\ pass.startList # <<>>) =>
             pass.trace[1] = Invocation(pass.startList[1],
                                 Clone(chainEngine, pass.kind, pass.input)))
    /\ [][enabledInterceptors' # enabledInterceptors
             => interceptors' = interceptors]_vars

\* Two interceptors were registered, a pass made while the manager was
\* disabled returned its argument, and the manager has been enabled again
\* with both still in the list.
C20_Witness ==
    /\ chainEngine = "InterceptorManager"
    /\ pass.kind = "request"
    /\ ~pass.startEnabled
    /\ pass.startList = <<1, 2>>
    /\ pass.outcome = Returned(pass.input)
    /\ enabledInterceptors
    /\ interceptors.request = <<1, 2>>

\* C21: a pass invokes the interceptors of the list as it was when the pass
\* started, whatever is registered or de-registered while it awaits an
\* interceptor: what it has invoked is always a prefix of that list, and all
\* of it once the pass has returned.
C21_PassOverSnapshot ==
    (pass.kind # "none" /\ pass.startEnabled /\ pass.thrown = <<>>) =>
        /\ Len(pass.trace) <= Len(pass.startList)
        /\ TraceFns(pass) = SubSeq(pass.startList, 1, Len(pass.trace))
        /\ pass.outcome.kind = "ok" => TraceFns(pass) = pass.startList

(***************************************************************************)
(* AuthManager: the token lifecycle (setTokens, clearTokens,               *)
(* isTokenExpired, handleUnauthorized, refreshTokens, the auth             *)
(* interceptor), with the clock and the storage collaborator.              *)
(***************************************************************************)

MaxClock == 2             \* seconds the clock advances in a behaviour
DefaultThreshold == 300   \* isTokenExpired: ... || 300
Second == 1000            \* milliseconds

\* setTokens arguments: refresh token, relative and absolute expiry and
\* token type are optional ("" and 0: absent).
TokenInputs ==
    [accessToken : {"a1"}, refreshToken : {"", "r1"},
     expiresIn : {0, 1, DefaultThreshold + 1}, expiresAt : {0, 2 * Second},
     tokenType : {""}]
    \cup [accessToken : {"a1"}, refreshToken : {""}, expiresIn : {0},
          expiresAt : {0}, tokenType : {"MAC"}]

\* authConfig as handed to the constructor.
AuthConfigs ==
    [refreshUrl : BOOLEAN, refreshThreshold : {0, 1},
     tokenPrefix : {"", "Token"}]

\* Thresholds passed to isTokenExpired (-1: the argument is left out).
Thresholds == {-1, 0, 1}

\* What requestFn answers to the refresh call.
TkResponses == {"tokens", "noTokens", "fail"}

\* x || y on numbers, and on strings
OrElse(x, y) == IF x = 0 THEN y ELSE x
OrElseStr(x, y) == IF x = "" THEN y ELSE x

\* AuthManager.isTokenExpired(threshold)
isTokenExpired(t, threshold, cfg, clock) ==
    /\ t # NullTk
    /\ t.expiresAt # 0
    /\ t.expiresAt <= clock
           + OrElse(IF threshold = -1 THEN 0 ELSE threshold,
                    OrElse(cfg.refreshThreshold, DefaultThreshold)) * Second

\* isTokenExpired of utils/auth.ts: threshold: number = 300
utilIsTokenExpired(t, threshold, clock) ==
    /\ t.expiresAt # 0
    /\ t.expiresAt <= clock
           + (IF threshold = -1 THEN DefaultThreshold ELSE threshold) * Second

WithExpiry_always(t, clock) ==
    IF t.expiresIn # 0
    THEN [t EXCEPT !.expiresAt = clock + t.expiresIn * Second]
    ELSE t
\* setTokens: if (tokens.expiresIn && !tokens.expiresAt) tokens.expiresAt = ...
WithExpiry(t, clock) ==
    IF t.expiresIn # 0 /\ t.expiresAt = 0
    THEN [t EXCEPT !.expiresAt = clock + t.expiresIn * Second]
    ELSE t

\* getStorage(): a storage that keeps what is written (localStorage,
\* sessionStorage, cookie, custom), the 'memory' strategy, which makes a new
\* Map at every call, and a storage that throws (no localStorage).
StoreKinds == {"persistent", "memory", "unavailable"}

\* saveTokensToStorage: the refresh token and the expiry are written only
\* when present; a storage that cannot be used throws, which is swallowed.
SaveTokens(kind, st, t) ==
    IF kind # "persistent" THEN st
    ELSE [token |-> t.accessToken,
          refresh |-> IF t.refreshToken # "" THEN t.refreshToken
                      ELSE st.refresh,
          expiresAt |-> IF t.expiresAt # 0 THEN t.expiresAt ELSE st.expiresAt]

RemoveTokens_keepsRefresh(kind, st) ==
    IF kind # "persistent" THEN st ELSE [EmptyStore EXCEPT !.refresh = st.refresh]
\* removeTokensFromStorage
RemoveTokens(kind, st) == IF kind # "persistent" THEN st ELSE EmptyStore

\* extractTokensFromResponse (default extraction) of a refresh response
ExtractedTokens ==
    [accessToken |-> "a2", refreshToken |-> "r1", expiresIn |-> 1,
     expiresAt |-> 0, tokenType |-> "Bearer"]

AuthHeader_tokenTypeFirst(t, cfg) ==
    IF t = NullTk THEN NoHeader
    ELSE [prefix |-> OrElseStr(t.tokenType, OrElseStr(cfg.tokenPrefix, "Bearer")),
          token |-> t.accessToken]
\* The interceptor of createAuthInterceptor: the Authorization header it
\* sets, as <prefix> <token>, or none.
AuthHeader(t, cfg) ==
    IF t = NullTk THEN NoHeader
    ELSE [prefix |-> OrElseStr(cfg.tokenPrefix, OrElseStr(t.tokenType, "Bearer")),
          token |-> t.accessToken]

\* What an operation finds when it is called.
Pre(op) ==
    [NoOp EXCEPT !.op = op,
                 !.hadTokens = (tkTokens # NullTk),
                 !.hadRefreshToken = (tkTokens.refreshToken # ""),
                 !.hadExpiry = (tkTokens.expiresAt # 0),
                 !.wasExpired = isTokenExpired(tkTokens, -1, tkConfig, now),
                 !.wasRefreshing = tkRefreshing]

InitToken ==
    /\ tkConfig \in AuthConfigs
    /\ tkStoreKind \in StoreKinds
    /\ now = 0
    /\ tkTokens = NullTk
    /\ tkAuthenticated = FALSE
    /\ tkUser = ""
    /\ tkStore = EmptyStore
    /\ tkRefreshing = FALSE
    /\ refresh = NoRefresh
    /\ lastOp = NoOp
    /\ AuthIdle
    /\ RetryIdle
    /\ CancelIdle
    /\ ChainIdle
    /\ SendIdle
    /\ UnauthIdle
    /\ EmitIdle

\* Time passes.
Tk_Tick ==
    /\ now < MaxClock * Second
    /\ now' = now + Second
    /\ lastOp' = NoOp
    /\ UNCHANGED <<tkConfig, tkStoreKind, tkTokens, tkAuthenticated, tkUser,
                   tkStore, tkRefreshing, refresh>>
    /\ UNCHANGED <<authVars, retryVars, cancelVars, chainVars, sendVars,
                   unauthVars, emitVars>>

\* setTokens(tokens)
Tk_SetTokens(t) ==
    /\ tkTokens' = WithExpiry(t, now)
    /\ tkAuthenticated' = TRUE
    /\ tkStore' = SaveTokens(tkStoreKind, tkStore, WithExpiry(t, now))
    /\ lastOp' = [Pre("setTokens") EXCEPT !.arg = t]
    /\ UNCHANGED <<tkConfig, tkStoreKind, now, tkUser, tkRefreshing, refresh>>
    /\ UNCHANGED <<authVars, retryVars, cancelVars, chainVars, sendVars,
                   unauthVars, emitVars>>

\* setUser(user)
Tk_SetUser ==
    /\ tkUser = ""
    /\ tkUser' = "u1"
    /\ lastOp' = Pre("setUser")
    /\ UNCHANGED <<tkConfig, tkStoreKind, now, tkTokens, tkAuthenticated,
                   tkStore, tkRefreshing, refresh>>
    /\ UNCHANGED <<authVars, retryVars, cancelVars, chainVars, sendVars,
                   unauthVars, emitVars>>

\* clearTokens()
Tk_ClearTokens ==
    /\ tkTokens' = NullTk
    /\ tkAuthenticated' = FALSE
    /\ tkUser' = ""
    /\ tkStore' = RemoveTokens(tkStoreKind, tkStore)
    /\ lastOp' = Pre("clearTokens")
    /\ UNCHANGED <<tkConfig, tkStoreKind, now, tkRefreshing, refresh>>
    /\ UNCHANGED <<authVars, retryVars, cancelVars, chainVars, sendVars,
                   unauthVars, emitVars>>

\* isTokenExpired(threshold), and isTokenExpired(tokens, threshold) of
\* utils/auth.ts on the same tokens when there are any.
Tk_IsTokenExpired(threshold) ==
    /\ lastOp' = [Pre("isTokenExpired") EXCEPT
                    !.threshold = threshold,
                    !.result =
                        IF isTokenExpired(tkTokens, threshold, tkConfig, now)
                        THEN "true" ELSE "false",
                    !.header =
                        [prefix |-> "util",
                         token |-> IF tkTokens # NullTk /\ utilIsTokenExpired(
                                          tkTokens, threshold, now)
                                   THEN "true" ELSE "false"]]
    /\ UNCHANGED <<tkConfig, tkStoreKind, now, tkTokens, tkAuthenticated,
                   tkUser, tkStore, tkRefreshing, refresh>>
    /\ UNCHANGED <<authVars, retryVars, cancelVars, chainVars, sendVars,
                   unauthVars, emitVars>>

\* The request interceptor made by createAuthInterceptor runs.
Tk_AuthInterceptor ==
    /\ lastOp' = [Pre("authInterceptor") EXCEPT
                    !.result = "returned",
                    !.header = AuthHeader(tkTokens, tkConfig)]
    /\ UNCHANGED <<tkConfig, tkStoreKind, now, tkTokens, tkAuthenticated,
                   tkUser, tkStore, tkRefreshing, refresh>>
    /\ UNCHANGED <<authVars, retryVars, cancelVars, chainVars, sendVars,
                   unauthVars, emitVars>>

HasRefreshTokenNow == tkTokens # NullTk /\ tkTokens.refreshToken # ""

\* refreshTokens(requestFn) called directly, with no refresh in flight:
\* the two guards throw; otherwise performTokenRefresh runs up to its
\* await requestFn(...).
Tk_RefreshTokens ==
    /\ refresh.pc = "none"
    /\ IF ~tkConfig.refreshUrl \/ ~HasRefreshTokenNow
       THEN /\ lastOp' = [Pre("refreshTokens") EXCEPT !.result = "fail"]
            /\ UNCHANGED <<tkRefreshing, refresh>>
       ELSE /\ tkRefreshing' = TRUE
            /\ refresh' = [pc |-> "requesting", endpoint |-> 1,
                           pre |-> Pre("refreshTokens")]
            /\ lastOp' = NoOp
    /\ UNCHANGED <<tkConfig, tkStoreKind, now, tkTokens, tkAuthenticated,
                   tkUser, tkStore>>
    /\ UNCHANGED <<authVars, retryVars, cancelVars, chainVars, sendVars,
                   unauthVars, emitVars>>

TakesRefreshBranch_expiredOnly(expired, hasRefreshToken) == expired
\* handleUnauthorized: if (this.isTokenExpired() && tokens?.refreshToken)
TakesRefreshBranch(expired, hasRefreshToken) == expired /\ hasRefreshToken

\* handleUnauthorized(requestFn) up to its first await that does not
\* settle at once.
Tk_HandleUnauthorized ==
    IF tkRefreshing
    THEN /\ lastOp' = [Pre("handleUnauthorized") EXCEPT !.result = "skipped"]
         /\ UNCHANGED <<tkTokens, tkAuthenticated, tkUser, tkStore,
                        tkRefreshing, refresh>>
         /\ UNCHANGED <<tkConfig, tkStoreKind, now>>
         /\ UNCHANGED <<authVars, retryVars, cancelVars, chainVars, sendVars,
                        unauthVars, emitVars>>
    ELSE IF TakesRefreshBranch(isTokenExpired(tkTokens, -1, tkConfig, now),
                               HasRefreshTokenNow)
    THEN /\ IF ~tkConfig.refreshUrl
            THEN \* refreshTokens throws, the catch fires onTokenExpired
                 /\ lastOp' = [Pre("handleUnauthorized") EXCEPT
                                 !.result = "refreshFailed", !.fired = 1]
                 /\ UNCHANGED <<tkRefreshing, refresh>>
            ELSE /\ tkRefreshing' = TRUE
                 /\ refresh' = [pc |-> "requesting", endpoint |-> 1,
                                pre |-> Pre("handleUnauthorized")]
                 /\ lastOp' = NoOp
         /\ UNCHANGED <<tkTokens, tkAuthenticated, tkUser, tkStore>>
         /\ UNCHANGED <<tkConfig, tkStoreKind, now>>
         /\ UNCHANGED <<authVars, retryVars, cancelVars, chainVars, sendVars,
                        unauthVars, emitVars>>
    ELSE \* onTokenExpired, clearTokens
         /\ tkTokens' = NullTk
         /\ tkAuthenticated' = FALSE
         /\ tkUser' = ""
         /\ tkStore' = RemoveTokens(tkStoreKind, tkStore)
         /\ lastOp' = [Pre("handleUnauthorized") EXCEPT
                         !.result = "cleared", !.fired = 1]
         /\ UNCHANGED <<tkRefreshing, refresh>>
         /\ UNCHANGED <<tkConfig, tkStoreKind, now>>
         /\ UNCHANGED <<authVars, retryVars, cancelVars, chainVars, sendVars,
                        unauthVars, emitVars>>

\* requestFn settles: performTokenRefresh sets the new tokens, or fires
\* onTokenExpired, clears and rethrows; its finally resets isRefreshing;
\* the awaiting refreshTokens settles, and a handleUnauthorized awaiting it
\* fires onTokenExpired in its own catch.
Tk_RequestFnSettles(resp) ==
    /\ refresh.pc = "requesting"
    /\ IF resp = "tokens"
       THEN /\ tkTokens' = WithExpiry(ExtractedTokens, now)
            /\ tkAuthenticated' = TRUE
            /\ tkStore' = SaveTokens(tkStoreKind, tkStore,
                                     WithExpiry(ExtractedTokens, now))
            /\ UNCHANGED tkUser
            /\ lastOp' = [refresh.pre EXCEPT !.result = "ok",
                                             !.endpoint = refresh.endpoint]
       ELSE /\ tkTokens' = NullTk
            /\ tkAuthenticated' = FALSE
            /\ tkUser' = ""
            /\ tkStore' = RemoveTokens(tkStoreKind, tkStore)
            /\ lastOp' = [refresh.pre EXCEPT
                            !.result = IF refresh.pre.op = "refreshTokens"
                                       THEN "fail" ELSE "refreshFailed",
                            !.endpoint = refresh.endpoint,
                            !.fired = IF refresh.pre.op = "refreshTokens"
                                      THEN 1 ELSE 2]
    /\ tkRefreshing' = FALSE
    /\ refresh' = NoRefresh
    /\ UNCHANGED <<tkConfig, tkStoreKind, now>>
    /\ UNCHANGED <<authVars, retryVars, cancelVars, chainVars, sendVars,
                   unauthVars, emitVars>>

\* loadTokensFromStorage: the tokens a coordinator reads from the storage
\* (expiresAt.toString() and parseInt give the same integer back).
LoadTokens(kind, st) ==
    IF kind = "persistent" /\ st.token # ""
    THEN [accessToken |-> st.token, refreshToken |-> st.refresh,
          expiresIn |-> 0, expiresAt |-> st.expiresAt, tokenType |-> ""]
    ELSE NullTk

\* A fresh coordinator is constructed over the same storage collaborator
\* and initialize() is awaited.
Tk_Initialize ==
    /\ refresh.pc = "none"
    /\ tkTokens' = LoadTokens(tkStoreKind, tkStore)
    /\ tkAuthenticated' = (LoadTokens(tkStoreKind, tkStore) # NullTk)
    /\ tkUser' = ""
    /\ lastOp' = [Pre("initialize") EXCEPT !.arg = tkTokens]
    /\ UNCHANGED <<tkConfig, tkStoreKind, now, tkStore, tkRefreshing, refresh>>
    /\ UNCHANGED <<authVars, retryVars, cancelVars, chainVars, sendVars,
                   unauthVars, emitVars>>

NextToken ==
    \/ Tk_Tick
    \/ Tk_Initialize
    \/ \E t \in TokenInputs : Tk_SetTokens(t)
    \/ Tk_SetUser
    \/ Tk_ClearTokens
    \/ \E threshold \in Thresholds : Tk_IsTokenExpired(threshold)
    \/ Tk_AuthInterceptor
    \/ Tk_RefreshTokens
    \/ Tk_HandleUnauthorized
    \/ \E resp \in TkResponses : Tk_RequestFnSettles(resp)

SpecToken == InitToken /\ [][NextToken]_vars

(***************************************************************************)
(* Claims about the token lifecycle                                        *)
(***************************************************************************)

\* C22: for every threshold >= 0, 0 included, isTokenExpired(threshold)
\* answers true exactly when an expiry is stored and
\* now + threshold * 1000 >= expiresAt; without a stored expiry it answers
\* false.
C22_IsTokenExpiredIff ==
    (lastOp.op = "isTokenExpired" /\ lastOp.threshold >= 0) =>
        (lastOp.result = "true"
            <=> /\ tkTokens # NullTk
                /\ tkTokens.expiresAt # 0
                /\ now + lastOp.threshold * Second >= tkTokens.expiresAt)

Cleared == tkTokens = NullTk /\ ~tkAuthenticated

\* C23: handleUnauthorized called with no refresh token present and no
\* refresh in progress calls the refresh endpoint not at all, fires
\* onTokenExpired once and leaves no tokens and isAuthenticated false.
C23_NoRefreshTokenClears ==
    (lastOp.op = "handleUnauthorized" /\ ~lastOp.hadRefreshToken
       /\ ~lastOp.wasRefreshing) =>
        /\ lastOp.endpoint = 0
        /\ lastOp.fired = 1
        /\ Cleared

\* Tokens without a refresh token were held, and are gone.
C23_Witness ==
    /\ lastOp.op = "handleUnauthorized"
    /\ lastOp.hadTokens
    /\ ~lastOp.hadRefreshToken
    /\ ~lastOp.wasRefreshing
    /\ lastOp.fired = 1
    /\ Cleared

\* C23 as stated: whenever handleUnauthorized is called with no refresh
\* token present.
C23_Original ==
    (lastOp.op = "handleUnauthorized" /\ ~lastOp.hadRefreshToken) =>
        /\ lastOp.endpoint = 0
        /\ lastOp.fired = 1
        /\ Cleared

\* C24: handleUnauthorized called with a refresh token present and the
\* access token expired, or presumed invalid for want of a recorded expiry,
\* makes one refresh-endpoint call; when the refresh fails, the tokens are
\* cleared and onTokenExpired has been fired.
C24_OneRefreshCycle ==
    (lastOp.op = "handleUnauthorized" /\ lastOp.hadRefreshToken
       /\ (lastOp.wasExpired \/ ~lastOp.hadExpiry)) =>
        /\ lastOp.endpoint = 1
        /\ lastOp.result \in {"ok", "refreshFailed"}
        /\ lastOp.result = "refreshFailed" => (Cleared /\ lastOp.fired >= 1)

\* C25: whenever refreshTokens fails, whatever the cause, onTokenExpired has
\* been fired, the tokens are cleared and no refresh is in progress.
C25_RefreshFailureClears ==
    (lastOp.op = "refreshTokens" /\ lastOp.result = "fail") =>
        /\ lastOp.fired >= 1
        /\ Cleared
        /\ ~tkRefreshing
        /\ refresh.pc = "none"

\* isAuthenticated()
isAuthenticatedNow == tkAuthenticated /\ tkTokens # NullTk

C28_AuthHeader ==
    lastOp.op = "authInterceptor" =>
        /\ lastOp.result = "returned"
        /\ tkTokens = NullTk <=> lastOp.header = NoHeader
        /\ tkTokens # NullTk =>
               /\ lastOp.header.token = tkTokens.accessToken
               /\ lastOp.header.prefix =
                      IF tkConfig.tokenPrefix # "" THEN tkConfig.tokenPrefix
                      ELSE IF tkTokens.tokenType # "" THEN tkTokens.tokenType
                      ELSE "Bearer"

\* A token of type MAC under a configured prefix Token goes out as Token.
C28_Witness ==
    /\ lastOp.op = "authInterceptor"
    /\ tkConfig.tokenPrefix = "Token"
    /\ tkTokens.tokenType = "MAC"
    /\ lastOp.header = [prefix |-> "Token", token |-> "a1"]

\* C28 as stated: the prefix is the stored token's own type if present,
\* Bearer otherwise.
C28_Original ==
    lastOp.op = "authInterceptor" =>
        /\ tkTokens = NullTk <=> lastOp.header = NoHeader
        /\ tkTokens # NullTk =>
               /\ lastOp.header.token = tkTokens.accessToken
               /\ lastOp.header.prefix =
                      IF tkTokens.tokenType # "" THEN tkTokens.tokenType
                      ELSE "Bearer"

(***************************************************************************)
(* FetchClient: createURL, and the routes a call takes to the transport    *)
(* (request -> executeRequest -> fetch, uploadFormData -> uploadWithFetch  *)
(* or uploadWithProgress -> XMLHttpRequest).                               *)
(***************************************************************************)

\* Strings are sequences of characters.
Http == <<"h", "t", "t", "p", ":", "/", "/">>
Https == <<"h", "t", "t", "p", "s", ":", "/", "/">>
Slash == <<"/">>

\* config.baseURL: empty (the default), and a host with no, one and two
\* trailing slashes.
BaseURLs ==
    {<<>>, Http \o <<"a">>, Http \o <<"a">> \o Slash,
     Http \o <<"a">> \o Slash \o Slash}

\* path arguments: relative with no, one and two leading slashes, and
\* absolute.
Paths ==
    {<<"p">>, Slash \o <<"p">>, Slash \o Slash \o <<"p">>,
     Http \o <<"b">> \o Slash \o <<"p">>, Https \o <<"b">>}

\* String.prototype.startsWith / endsWith / slice(0, -1)
StartsWith(str, prefix) ==
    Len(str) >= Len(prefix) /\ SubSeq(str, 1, Len(prefix)) = prefix
EndsWith(str, suffix) ==
    Len(str) >= Len(suffix)
        /\ SubSeq(str, Len(str) - Len(suffix) + 1, Len(str)) = suffix
DropLast(str) == SubSeq(str, 1, Len(str) - 1)

\* FetchClient.createURL / RequestExecutor.createURL
createURL(base, path) ==
    IF StartsWith(path, Http) \/ StartsWith(path, Https)
    THEN path
    ELSE (IF EndsWith(base, Slash) THEN DropLast(base) ELSE base)
             \o (IF StartsWith(path, Slash) THEN path ELSE Slash \o path)

\* The headers of the client configuration, and the one a registered
\* request interceptor injects.
ConfigHeaders == {"Accept"}
InjectedHeader == "Authorization"

InitSend ==
    /\ baseURL \in BaseURLs
    /\ requestHook \in BOOLEAN
    /\ errorHook \in BOOLEAN
    /\ sendPath = <<>>
    /\ sendUrl = <<>>
    /\ route = "none"
    /\ sendPc = "idle"
    /\ wireHeaders = {}
    /\ sendOutcome = NoSend
    /\ AuthIdle
    /\ RetryIdle
    /\ CancelIdle
    /\ ChainIdle
    /\ TokenIdle
    /\ UnauthIdle
    /\ EmitIdle

\* request(method, path, config) -> executeRequest, up to the call of
\* fetch: createURL, the request interceptors, fetch(url, { headers }).
Sd_Request(path) ==
    /\ sendPc = "idle"
    /\ sendPath' = path
    /\ sendUrl' = createURL(baseURL, path)
    /\ route' = "fetch"
    /\ wireHeaders' = ConfigHeaders
                        \cup (IF requestHook THEN {InjectedHeader} ELSE {})
    /\ sendPc' = "sent"
    /\ UNCHANGED <<baseURL, requestHook, errorHook, sendOutcome>>
    /\ UNCHANGED <<authVars, retryVars, cancelVars, chainVars, tokenVars,
                   unauthVars, emitVars>>

\* uploadFormData(path, formData, config): with a progress callback
\* uploadWithProgress opens an XMLHttpRequest on createURL(path) and sets
\* the configured headers on it; without one uploadWithFetch goes through
\* request.
Sd_UploadFormData(path, progress) ==
    /\ sendPc = "idle"
    /\ sendPath' = path
    /\ sendUrl' = createURL(baseURL, path)
    /\ route' = IF progress THEN "xhr" ELSE "uploadFetch"
    /\ wireHeaders' =
           IF progress THEN ConfigHeaders
           ELSE ConfigHeaders
                    \cup (IF requestHook THEN {InjectedHeader} ELSE {})
    /\ sendPc' = "sent"
    /\ UNCHANGED <<baseURL, requestHook, errorHook, sendOutcome>>
    /\ UNCHANGED <<authVars, retryVars, cancelVars, chainVars, tokenVars,
                   unauthVars, emitVars>>

\* The transport settles.  executeRequest (retries: 0) hands a failure to
\* the error interceptors before throwing; the XMLHttpRequest listeners
\* reject with the error they made.
Sd_TransportSettles(ok) ==
    /\ sendPc = "sent"
    /\ sendPc' = "done"
    /\ sendOutcome' =
           IF ok THEN [kind |-> "ok", processed |-> FALSE]
           ELSE [kind |-> "fail",
                 processed |-> (route # "xhr" /\ errorHook)]
    /\ UNCHANGED <<baseURL, requestHook, errorHook, sendPath, sendUrl, route,
                   wireHeaders>>
    /\ UNCHANGED <<authVars, retryVars, cancelVars, chainVars, tokenVars,
                   unauthVars, emitVars>>

NextSend ==
    \/ \E path \in Paths : Sd_Request(path)
    \/ \E path \in Paths, progress \in BOOLEAN :
           Sd_UploadFormData(path, progress)
    \/ \E ok \in BOOLEAN : Sd_TransportSettles(ok)

SpecSend == InitSend /\ [][NextSend]_vars

\* The string without its trailing, and without its leading, slashes.
RECURSIVE StripTrailing(_)
StripTrailing(str) ==
    IF EndsWith(str, Slash) THEN StripTrailing(DropLast(str)) ELSE str
RECURSIVE StripLeading(_)
StripLeading(str) ==
    IF StartsWith(str, Slash) THEN StripLeading(Tail(str)) ELSE str

\* C29: createURL returns an absolute path unchanged, and otherwise the
\* base URL and the path joined with exactly one slash at the seam, however
\* many slashes the base URL ends with and the path begins with.
C29_OneSlashAtSeam ==
    sendPc # "idle" =>
        sendUrl =
            IF StartsWith(sendPath, Http) \/ StartsWith(sendPath, Https)
            THEN sendPath
            ELSE StripTrailing(baseURL) \o Slash \o StripLeading(sendPath)

\* C30: every call of the client, uploads with progress tracking included,
\* hands the transport what the registered request interceptor injects, and
\* its failure reaches the caller through the registered error
\* interceptor.
C30_InterceptorsOnEveryCall ==
    /\ (sendPc # "idle" /\ requestHook) => InjectedHeader \in wireHeaders
    /\ (sendOutcome.kind = "fail" /\ errorHook) => sendOutcome.processed

(***************************************************************************)
(* The unauthorized interceptor (createUnauthorizedInterceptor), installed *)
(* as a response interceptor of FetchClient.                               *)
(***************************************************************************)

MaxRequests == 3    \* calls of the client in a behaviour

\* Status of the transport's response; NoStatus: fetch rejected.
UaStatuses == {NoStatus, 200, 201, 204, 400, 401, 403, 404, 500, 503}

\* createUnauthorizedInterceptor: if (response.status === 401)
CallsHandleUnauthorized(status) == status = 401

InitUnauth ==
    /\ uaInstalled \in BOOLEAN
    /\ uaRequests = 0
    /\ uaPc = "idle"
    /\ uaStatus = 0
    /\ uaHandled = FALSE
    /\ uaOutcome = "none"
    /\ AuthIdle
    /\ RetryIdle
    /\ CancelIdle
    /\ ChainIdle
    /\ TokenIdle
    /\ SendIdle
    /\ EmitIdle

\* executeRequest (retries: 0, the constructor's default) up to the call of
\* fetch.
Ua_ExecuteRequest ==
    /\ uaPc \in {"idle", "done"}
    /\ uaRequests < MaxRequests
    /\ uaRequests' = uaRequests + 1
    /\ uaPc' = "running"
    /\ uaStatus' = 0
    /\ uaHandled' = FALSE
    /\ uaOutcome' = "none"
    /\ UNCHANGED uaInstalled
    /\ UNCHANGED <<authVars, retryVars, cancelVars, chainVars, tokenVars,
                   sendVars, emitVars>>

\* fetch settles: `if (!response.ok) throw error` lands in the catch block
\* and, with no retry left, in applyErrorInterceptors; a 2xx response is
\* handed to applyResponseInterceptors.
Ua_FetchSettles(status) ==
    /\ uaPc = "running"
    /\ uaStatus' = status
    /\ uaPc' = IF ResponseOk(status) THEN "respInterceptors"
               ELSE "errInterceptors"
    /\ UNCHANGED <<uaInstalled, uaRequests, uaHandled, uaOutcome>>
    /\ UNCHANGED <<authVars, retryVars, cancelVars, chainVars, tokenVars,
                   sendVars, emitVars>>

\* applyResponseInterceptors returns: the unauthorized interceptor, when
\* installed, has looked at the response.
Ua_ResponseInterceptorsDone ==
    /\ uaPc = "respInterceptors"
    /\ uaHandled' = (uaInstalled /\ CallsHandleUnauthorized(uaStatus))
    /\ uaPc' = "done"
    /\ uaOutcome' = "success"
    /\ UNCHANGED <<uaInstalled, uaRequests, uaStatus>>
    /\ UNCHANGED <<authVars, retryVars, cancelVars, chainVars, tokenVars,
                   sendVars, emitVars>>

\* applyErrorInterceptors returns and its result is thrown.
Ua_ErrorInterceptorsDone ==
    /\ uaPc = "errInterceptors"
    /\ uaPc' = "done"
    /\ uaOutcome' = "failure"
    /\ UNCHANGED <<uaInstalled, uaRequests, uaStatus, uaHandled>>
    /\ UNCHANGED <<authVars, retryVars, cancelVars, chainVars, tokenVars,
                   sendVars, emitVars>>

NextUnauth ==
    \/ Ua_ExecuteRequest
    \/ \E status \in UaStatuses : Ua_FetchSettles(status)
    \/ Ua_ResponseInterceptorsDone
    \/ Ua_ErrorInterceptorsDone

SpecUnauth == InitUnauth /\ [][NextUnauth]_vars

\* C31: with the unauthorized interceptor installed, a call whose transport
\* attempt returned status 401 has invoked handleUnauthorized by the time
\* it settles.
C31_UnauthorizedTriggersHandler ==
    (uaInstalled /\ uaPc = "done" /\ uaStatus = 401) => uaHandled

\* ------------------------------------------- retry: updating the policy

\* C32: updateConfig / updateRetryConfig changes exactly the fields of the
\* partial configuration it is given, and every failed attempt after it
\* decides under the policy then in force: its limit is that policy's
\* maxRetries (the call giving no retries of its own) and its decision is
\* what shouldRetry answers under that policy.
C32_UpdatedPolicyIsRead ==
    /\ [](lastDecision.made /\ reqRetries = NoOverride =>
            /\ lastDecision.limit = lastDecision.cfg.maxRetries
            /\ lastDecision.result <=>
                 IF engine = "RetryManager"
                 THEN shouldRetry(lastDecision.cfg, lastDecision.status,
                                  lastDecision.attempt)
                 ELSE clientShouldRetry(lastDecision.cfg,
                                        lastDecision.cfg.maxRetries,
                                        lastDecision.status,
                                        lastDecision.attempt))
    /\ [][retryConfig' # retryConfig =>
            \E partial \in PartialConfigs :
                \A f \in RetryFields :
                    retryConfig'[f] = IF f \in DOMAIN partial THEN partial[f]
                                      ELSE retryConfig[f]]_vars

\* C33: once an attempt of a call has returned a 2xx response, the call
\* settles, or fails through the error interceptors when a response
\* interceptor fails: it does not go to sleep for a further attempt of the
\* transport, whatever retries remain.
C33_NoTransportAfterResponse ==
    [][(engine = "FetchClient" /\ pc = "respInterceptors")
          => pc' \in {"respInterceptors", "done", "errInterceptors"}]_vars

\* ---------------------------------------- token lifecycle: further claims

\* C34: a coordinator without credentials (clearTokens has completed, or
\* none were ever set) gets credentials only by a setTokens call of the
\* caller: a refresh that was in flight when clearTokens ran does not
\* install any when it completes.
C34_ClearedStaysCleared ==
    [][(tkTokens = NullTk /\ tkTokens' # NullTk) => lastOp'.op = "setTokens"]_vars

\* C35: whenever no auth operation is in progress and the storage can be
\* used, the storage holds an access token exactly when the coordinator
\* holds credentials, and it is the one held in memory.
C35_StorageMatchesMemory ==
    (refresh.pc = "none" /\ tkStoreKind # "unavailable") =>
        /\ tkStore.token # "" <=> tkTokens # NullTk
        /\ tkTokens # NullTk => tkStore.token = tkTokens.accessToken

\* C36: a fresh coordinator initialized over the storage that kept the
\* credentials of the most recent setTokens holds their access token,
\* refresh token and expiry.
C36_PersistenceRoundTrip ==
    (lastOp.op = "initialize" /\ lastOp.hadTokens
        /\ tkStoreKind = "persistent") =>
        /\ tkTokens.accessToken = lastOp.arg.accessToken
        /\ tkTokens.refreshToken = lastOp.arg.refreshToken
        /\ tkTokens.expiresAt = lastOp.arg.expiresAt

\* C37: one handleUnauthorized call fires the token-expired callback at
\* most once, also when the refresh cycle it started fails.
C37_ExpiredCallbackAtMostOnce ==
    lastOp.op = "handleUnauthorized" => lastOp.fired <= 1

(***************************************************************************)
(* AuthEventEmitter (utils/auth.ts): on, the unsubscribe functions and     *)
(* emit, for one event.                                                    *)
(***************************************************************************)

MaxSubscriptions == 2   \* on(event, callback) calls in a behaviour
MaxUnsubscribes == 2    \* calls of unsubscribe functions in a behaviour

\* The callbacks handed to on().
Callbacks == {1, 2}

RECURSIVE Sum(_)
Sum(seq) == IF seq = <<>> THEN 0 ELSE Head(seq) + Sum(Tail(seq))

InitEmit ==
    /\ listeners = <<>>
    /\ subscriptions = <<>>
    /\ unsubscribed = <<>>
    /\ emitting = NoEmit
    /\ AuthIdle
    /\ RetryIdle
    /\ CancelIdle
    /\ ChainIdle
    /\ TokenIdle
    /\ SendIdle
    /\ UnauthIdle

\* on(event, callback)
Em_On(cb) ==
    /\ emitting.pc # "running"
    /\ Len(subscriptions) < MaxSubscriptions
    /\ listeners' = Append(listeners, cb)
    /\ subscriptions' = Append(subscriptions, cb)
    /\ unsubscribed' = Append(unsubscribed, 0)
    /\ UNCHANGED emitting
    /\ UNCHANGED <<authVars, retryVars, cancelVars, chainVars, tokenVars,
                   sendVars, unauthVars>>

\* The unsubscribe function that the i-th on() returned is called; it has
\* the body of an interceptor's de-registration handle (indexOf, splice).
Em_Unsubscribe(i) ==
    /\ emitting.pc # "running"
    /\ i \in 1..Len(subscriptions)
    /\ Sum(unsubscribed) < MaxUnsubscribes
    /\ listeners' = HandleRemoves(listeners, subscriptions[i])
    /\ unsubscribed' = [unsubscribed EXCEPT ![i] = @ + 1]
    /\ UNCHANGED <<subscriptions, emitting>>
    /\ UNCHANGED <<authVars, retryVars, cancelVars, chainVars, tokenVars,
                   sendVars, unauthVars>>

\* emit(event): callbacks.forEach(...) reads the length once and starts at
\* the first index.
Em_Emit ==
    /\ emitting.pc # "running"
    /\ subscriptions # <<>>
    /\ emitting' = [pc |-> IF listeners = <<>> THEN "returned" ELSE "running",
                    idx |-> 1, len |-> Len(listeners),
                    startList |-> listeners, trace |-> <<>>]
    /\ UNCHANGED <<listeners, subscriptions, unsubscribed>>
    /\ UNCHANGED <<authVars, retryVars, cancelVars, chainVars, tokenVars,
                   sendVars, unauthVars>>

\* forEach visits the next index: an index the array no longer has is
\* passed over, otherwise the callback found there is invoked; the callback
\* calls the unsubscribe function h (0: none).
Em_Invoke(h) ==
    /\ emitting.pc = "running"
    /\ IF emitting.idx <= Len(listeners)
       THEN /\ emitting' =
                 [emitting EXCEPT
                    !.trace = Append(@, listeners[emitting.idx]),
                    !.idx = @ + 1,
                    !.pc = IF emitting.idx + 1 > emitting.len
                           THEN "returned" ELSE "running"]
            /\ IF h = 0
               THEN UNCHANGED <<listeners, unsubscribed>>
               ELSE /\ h \in 1..Len(subscriptions)
                    /\ Sum(unsubscribed) < MaxUnsubscribes
                    /\ listeners' = HandleRemoves(listeners, subscriptions[h])
                    /\ unsubscribed' = [unsubscribed EXCEPT ![h] = @ + 1]
       ELSE /\ h = 0
            /\ emitting' =
                 [emitting EXCEPT
                    !.idx = @ + 1,
                    !.pc = IF emitting.idx + 1 > emitting.len
                           THEN "returned" ELSE "running"]
            /\ UNCHANGED <<listeners, unsubscribed>>
    /\ UNCHANGED subscriptions
    /\ UNCHANGED <<authVars, retryVars, cancelVars, chainVars, tokenVars,
                   sendVars, unauthVars>>

NextEmit ==
    \/ \E cb \in Callbacks : Em_On(cb)
    \/ \E i \in 1..MaxSubscriptions : Em_Unsubscribe(i)
    \/ Em_Emit
    \/ \E h \in 0..MaxSubscriptions : Em_Invoke(h)

SpecEmit == InitEmit /\ [][NextEmit]_vars

\* The callbacks of the subscriptions whose unsubscribe function was never
\* called, in registration order.
RECURSIVE Subscribed(_)
Subscribed(n) ==
    IF n = 0 THEN <<>>
    ELSE IF unsubscribed[n] = 0
         THEN Append(Subscribed(n - 1), subscriptions[n])
         ELSE Subscribed(n - 1)

\* C38: an emit that has returned has invoked the listeners registered when
\* it was called, once each and in registration order, whatever was
\* unsubscribed during it; and outside an emit the registered listeners are
\* those of the subscriptions never unsubscribed, however often an
\* unsubscribe function was called.
C38_EmitInvokesRegistered ==
    /\ emitting.pc = "returned" => emitting.trace = emitting.startList
    /\ emitting.pc # "running" => listeners = Subscribed(Len(subscriptions))

\* ------------------------------------------------ retry: every call settles

\* The retry loops with the jitter draw fixed (Math.random() = 0) and one
\* error of each kind: a network error, a 4xx and a 5xx status.
SettleStatuses == {NoStatus, 404, 500}
NextSettle ==
    \/ \E partial \in PartialConfigs : Mgr_UpdateConfig(partial)
    \/ Mgr_ExecuteWithRetry
    \/ Mgr_OperationSucceeds
    \/ \E status \in SettleStatuses : Mgr_OperationFails(status, 0)
    \/ Mgr_Wake
    \/ \E partial \in PartialConfigs : Client_UpdateRetryConfig(partial)
    \/ \E override \in {NoOverride} \cup (0..MaxRetriesBound) :
          Client_ExecuteRequest(override)
    \/ \E ok \in BOOLEAN : Client_RequestInterceptorsDone(ok)
    \/ \E status \in {SuccessStatus} \cup SettleStatuses :
          Client_FetchSettles(status, 0)
    \/ \E ok \in BOOLEAN : Client_ResponseInterceptorsDone(ok, 0)
    \/ Client_Wake
    \/ \E msg \in ErrorMessages : Client_ErrorInterceptorsDone(msg)

\* Every attempt of the operation or of the transport eventually settles,
\* every interceptor chain eventually returns, and every sleep ends.
SettleFairness ==
    /\ WF_vars(Mgr_OperationSucceeds
                 \/ \E status \in SettleStatuses :
                        Mgr_OperationFails(status, 0))
    /\ WF_vars(Mgr_Wake)
    /\ WF_vars(\E ok \in BOOLEAN : Client_RequestInterceptorsDone(ok))
    /\ WF_vars(\E status \in {SuccessStatus} \cup SettleStatuses :
                   Client_FetchSettles(status, 0))
    /\ WF_vars(\E ok \in BOOLEAN : Client_ResponseInterceptorsDone(ok, 0))
    /\ WF_vars(Client_Wake)
    /\ WF_vars(\E msg \in ErrorMessages : Client_ErrorInterceptorsDone(msg))

SpecSettle == InitRetry /\ [][NextSettle]_vars /\ SettleFairness

\* C39: a call that has started eventually settles, and it settles as
\* success or as failure: no failure leaves it pending or without an
\* outcome.
C39_CallSettles ==
    /\ (pc # "idle") ~> (pc = "done")
    /\ [](pc = "done" => outcome.kind \in {"success", "failure"})

\* A call that failed, slept and tried again has settled as failure.
C39_Witness ==
    /\ pc = "done"
    /\ outcome.kind = "failure"
    /\ calls >= 2
    /\ Len(sleeps) >= 1

====
